---- MODULE Spec2Model ----
(***************************************************************************)
(* ga-ez-dash: the load / authorization chain, the deferred command queue  *)
(* and the request / response lifecycle of a GaQuery.                      *)
(*                                                                         *)
(* JavaScript is single threaded: every action below is one whole event    *)
(* handler (a page-script call, a script-load signal, a timer, an API      *)
(* callback), including every synchronous call it makes.  Synchronous      *)
(* call chains are operators over a "world" record w that is threaded      *)
(* through the calls; the action then stores the resulting world.          *)
(*                                                                         *)
(* Environment assumptions: the page holds the element 'gadash-auth' and   *)
(* the elements the charts name, every query's config holds a query map,   *)
(* and user handlers do not throw.  The one exception the code itself can  *)
(* raise on the load path (gapi used before client.js has loaded) is       *)
(* modelled.                                                               *)
(***************************************************************************)
EXTENDS Integers, Sequences, FiniteSets, TLC

\* ------------------------------------------------------------------ bounds
MaxInits == 2       \* calls of gadash.init made by the page
MaxCalls == 3       \* calls made by the page script after gadash.init
                    \* (execute, setConfig, new ProfileSelect) and clicks
                    \* made by the user on the authorize button

\* Number of script urls gadash.init hands to loadJs_ (urls.length).
NumberOfScripts == 2

\* The query objects of the page.
Queries == {1, 2}

\* Script urls loaded by gadash.init: the Google loader (visualization) and
\* the Google API client.
ScriptKinds == {"jsapi", "client"}

\* Lifecycle events of a query and the name of each one's default slot.
Events == {"onRequest", "onResponse", "onSuccess", "onError"}

DefaultOf(ev) == ev \o "Default"

\* The parameters of config.query the model follows: config.query.ids and
\* config.query.metrics, held as two keys of the config map.
QueryKeys == {"ids", "metrics"}

ConfigKeys == Events \cup {DefaultOf(ev) : ev \in Events} \cup QueryKeys

\* Values a JavaScript user function may return.
RetVals == {"false", "undefined", "true"}

\* API responses: response.error present or not.
Responses == {"ok", "error"}

VARIABLES
  inits,            \* number of gadash.init calls made
  authConfig,       \* gadash.auth.config: the user's auth handlers
  pendingScripts,   \* script tags inserted and not yet signalled
  loadedKinds,      \* script urls that have executed at least once
  callbackCount,    \* counter of the closure held by window.__globalCallback
  timers,           \* pending setTimeout(checkAuth_, 1)
  authPending,      \* gapi.auth.authorize calls in flight
  authButton,       \* 'authorize-button' onclick is gadash.auth.authorize
  apiLoadPending,   \* gapi.client.load('analytics') calls in flight
  userInfoPending,  \* /oauth2/v2/userinfo requests in flight
  isLoaded,         \* gadash.isLoaded
  commandQueue_,    \* gadash.commandQueue_: bound executeFunction_ of a query
  subscribers,      \* gadash.util.pubsub.map[libsLoaded]
  config,           \* config[q]: the config map of query q
  requests,         \* Core Reporting requests in flight, per query
  element,          \* content of the element of each query
  errorsDiv,        \* number of lines appended to the element 'errors'
  selects,          \* ProfileSelect objects built
  mgmtRequests,     \* Management API list requests in flight
  calls,            \* page-script calls and user clicks made
  callOrder,        \* history: queries of the execute() calls that queued
  queueRuns,        \* history: times each queue position has been run
  trace,            \* history: the call log of the last action
  today,            \* the local calendar day new Date() gives
  heap,             \* the JavaScript objects of the page and the library
  call              \* the last library function applied: inputs and results

vars == <<inits, authConfig, pendingScripts, loadedKinds, callbackCount,
          timers, authPending, authButton, apiLoadPending,
          userInfoPending, isLoaded, commandQueue_, subscribers, config,
          requests, element, errorsDiv, selects, mgmtRequests, calls,
          callOrder, queueRuns, trace, today, heap, call>>

\* The variables of the specifications of the library's functions on values
\* (dates, config objects, arguments).
valueVars == <<today, heap, call>>

\* ------------------------------------------------------------- call log
\* One entry of the call log.  t: the kind of entry; q: the query (0: none);
\* ev: the lifecycle event; fn: the function run; arg: the argument passed;
\* ret: a returned value or a flag; n: a number.
Blank == [t |-> "", q |-> 0, ev |-> "", fn |-> "", arg |-> "", ret |-> "",
          n |-> 0]

Log(w, e) == [w EXCEPT !.trace = Append(@, e)]

\* The flag logged with an entry: the value of gadash.isLoaded at that moment.
Flag(w) == IF w.isLoaded THEN "loaded" ELSE "notLoaded"

\* ----------------------------------------------------------------- util
\* gadash.util.getType on the values a config slot holds here.
Functions == {"userFn", "gadash.core.onRequestDefault",
              "gadash.gviz.onRequestDefault", "gadash.gviz.onResponseDefault",
              "gadash.gviz.onSuccessDefault", "gadash.onErrorDefault"}

getType(value) ==
  IF value \in Functions THEN "function"
  ELSE IF value = "undefined" THEN "undefined"
  ELSE "string"

\* gadash.util.extend on maps whose values are functions or strings (no
\* nested object): every key of from with a value that is not undefined is
\* written over to.
extend(from, to) ==
  [k \in DOMAIN to |->
     IF k \in DOMAIN from /\ from[k] # "undefined" THEN from[k] ELSE to[k]]

\* No config object given (opt_config undefined).
NoConfig == [x \in {} |-> "undefined"]

EmptyConfig == [k \in ConfigKeys |-> "undefined"]

\* new gadash.GaQuery(opt_config): this.config = {}; setConfig(opt_config).
GaQuery(opt_config) == extend(opt_config, EmptyConfig)

\* gadash.getCoreQuery(): a GaQuery with the core request and error defaults.
getCoreQuery ==
  GaQuery([onRequestDefault |-> "gadash.core.onRequestDefault",
           onErrorDefault |-> "gadash.onErrorDefault"])

\* gadash.gviz.coreChartConfig.
coreChartConfig ==
  [onRequestDefault |-> "gadash.gviz.onRequestDefault",
   onResponseDefault |-> "gadash.gviz.onResponseDefault",
   onSuccessDefault |-> "gadash.gviz.onSuccessDefault",
   onErrorDefault |-> "gadash.onErrorDefault"]

\* gadash.getCoreChart(): new GaQuery().setConfig(coreChartConfig).
getCoreChart == extend(coreChartConfig, GaQuery(NoConfig))

\* A query constructed directly, given only the Core Reporting request
\* function: new gadash.GaQuery({onRequestDefault: gadash.core.onRequestDefault}).
DirectQuery ==
  GaQuery([onRequestDefault |-> "gadash.core.onRequestDefault"])

\* The ways the page builds a query object.
Builders == {getCoreQuery, getCoreChart, DirectQuery}

\* Config objects with handlers that the page passes to setConfig / execute.
UserConfigs ==
  {[onRequest |-> "userFn", onResponse |-> "userFn"],
   [onSuccess |-> "userFn", onError |-> "userFn"]}

\* A config object that sets the onRequest handler only.
RequestConfigs == {[onRequest |-> "userFn"]}

\* ------------------------------------------------- default handlers
\* The parameters of the request built from a config map, as one string:
\* this.config.actualQuery = gadash.core.getCoreQueryObj(this.config).
actualQuery(cfg) ==
  (IF "ids" \in DOMAIN cfg THEN cfg["ids"] ELSE "undefined") \o "," \o
  (IF "metrics" \in DOMAIN cfg THEN cfg["metrics"] ELSE "undefined")

\* gadash.core.onRequestDefault: builds the query object and issues one
\* Core Reporting request whose callback is this.callback.
coreOnRequestDefault(w, q) ==
  Log([w EXCEPT !.requests[q] = @ + 1],
      [Blank EXCEPT !.t = "request", !.q = q, !.fn = "data.ga.get",
                    !.arg = actualQuery(w.config[q]), !.ret = Flag(w)])

\* Variant: the error handler issues the request again.
onErrorDefaultRetries(w, q) ==
  coreOnRequestDefault(
    Log([w EXCEPT !.errorsDiv = @ + 1],
        [Blank EXCEPT !.t = "append", !.q = q, !.fn = "errors"]), q)

\* gadash.onErrorDefault: appends ' error: code message' to the element
\* 'errors' (created when missing).
onErrorDefault(w, q) ==
  Log([w EXCEPT !.errorsDiv = @ + 1],
      [Blank EXCEPT !.t = "append", !.q = q, !.fn = "errors"])

\* gadash.gviz.onRequestDefault: writes the loader into the element, then
\* runs gadash.core.onRequestDefault bound to the query.
gvizOnRequestDefault(w, q) ==
  coreOnRequestDefault([w EXCEPT !.element[q] = "loading"], q)

\* gadash.gviz.onResponseDefault: empties the element.
gvizOnResponseDefault(w, q) == [w EXCEPT !.element[q] = ""]

\* gadash.gviz.onSuccessDefault on a response with rows: data table, chart,
\* draw into the element.
gvizOnSuccessDefault(w, q) == [w EXCEPT !.element[q] = "chart"]

\* bindMethod(this, defaultFunc)(opt_args): runs the library function fn.
CallDefault(w, q, ev, fn, arg) ==
  LET w1 == Log(w, [Blank EXCEPT !.t = "default", !.q = q, !.ev = ev,
                                 !.fn = fn, !.arg = arg])
  IN CASE fn = "gadash.core.onRequestDefault" -> coreOnRequestDefault(w1, q)
       [] fn = "gadash.gviz.onRequestDefault" -> gvizOnRequestDefault(w1, q)
       [] fn = "gadash.gviz.onResponseDefault" -> gvizOnResponseDefault(w1, q)
       [] fn = "gadash.gviz.onSuccessDefault" -> gvizOnSuccessDefault(w1, q)
       [] fn = "gadash.onErrorDefault" -> onErrorDefault(w1, q)
       [] OTHER -> w1

\* Variant: the default runs only after a truthy return value.
NotFalseTruthy(value) == value = "true"

\* JavaScript: value !== false.
NotFalse(value) == value # "false"

\* JavaScript truthiness of a config slot (a function, or nothing).
IsSet(value) == value # "undefined"

\* -------------------------------------------------------------- GaQuery
RECURSIVE execute(_, _, _)
RECURSIVE executeFunction_(_, _)
RECURSIVE executeHandlers_(_, _, _, _, _)
RECURSIVE CallUser(_, _, _, _)

\* Variant: the config object given is dropped.
setConfigDropped(w, q, cfg) == w

\* GaQuery.prototype.setConfig: extend(config, this.config).
setConfig(w, q, cfg) == [w EXCEPT !.config[q] = extend(cfg, @)]

\* A user handler: returns the value the oracle w.ora gives it.  The
\* onRequest handler of query w.nestBy calls w.nestTo.execute() the first
\* time it runs in this action.
CallUser(w, q, ev, arg) ==
  LET w1 == Log(w, [Blank EXCEPT !.t = "user", !.q = q, !.ev = ev,
                                 !.fn = "userFn", !.arg = arg,
                                 !.ret = w.ora[q][ev]])
  IN IF ev = "onRequest" /\ w.nestBy = q
       THEN execute([w1 EXCEPT !.nestBy = 0], w.nestTo, NoConfig)
       ELSE w1

\* GaQuery.prototype.executeHandlers_.
executeHandlers_(w, q, userFunction, defaultFunction, opt_args) ==
  LET userFunc == w.config[q][userFunction]
      defaultFunc == w.config[q][defaultFunction]
      w0 == Log(w, [Blank EXCEPT !.t = "handlers", !.q = q,
                                 !.ev = userFunction, !.arg = opt_args])
  IN IF getType(userFunc) = "function"
       THEN LET w1 == CallUser(w0, q, userFunction, opt_args)
            IN IF NotFalse(w.ora[q][userFunction]) /\ IsSet(defaultFunc)
                 THEN CallDefault(w1, q, userFunction, defaultFunc, opt_args)
                 ELSE w1
       ELSE IF IsSet(defaultFunc)
              THEN CallDefault(w0, q, userFunction, defaultFunc, opt_args)
              ELSE w0

\* GaQuery.prototype.executeFunction_.
executeFunction_(w, q) ==
  executeHandlers_(
    Log(w, [Blank EXCEPT !.t = "executeFunction_", !.q = q]),
    q, "onRequest", "onRequestDefault", "undefined")

\* Variant: the command is put at the front of the queue.
executeUnshift(w, q, opt_config) ==
  LET w0 == Log(w, [Blank EXCEPT !.t = "execute", !.q = q, !.ret = Flag(w)])
      w1 == IF opt_config # NoConfig THEN setConfig(w0, q, opt_config) ELSE w0
  IN IF w1.isLoaded
       THEN executeFunction_(w1, q)
       ELSE [w1 EXCEPT !.commandQueue_ = <<q>> \o @,
                       !.callOrder = Append(@, q),
                       !.queueRuns = Append(@, 0)]

\* Variant: execute never looks at gadash.isLoaded.
executeNoLoadCheck(w, q, opt_config) ==
  LET w0 == Log(w, [Blank EXCEPT !.t = "execute", !.q = q, !.ret = Flag(w)])
      w1 == IF opt_config # NoConfig THEN setConfig(w0, q, opt_config) ELSE w0
  IN executeFunction_(w1, q)

\* GaQuery.prototype.execute.
execute(w, q, opt_config) ==
  LET w0 == Log(w, [Blank EXCEPT !.t = "execute", !.q = q, !.ret = Flag(w),
                                 !.arg = actualQuery(opt_config)])
      w1 == IF opt_config # NoConfig THEN setConfig(w0, q, opt_config) ELSE w0
  IN IF w1.isLoaded
       THEN executeFunction_(w1, q)
       ELSE [w1 EXCEPT !.commandQueue_ = Append(@, q),
                       !.callOrder = Append(@, q),
                       !.queueRuns = Append(@, 0)]

\* Variant: the success handlers run after the error handlers too.
callbackBoth(w, q, response) ==
  LET w1 == executeHandlers_(w, q, "onResponse", "onResponseDefault",
                             "undefined")
      w2 == IF response = "error"
              THEN executeHandlers_(w1, q, "onError", "onErrorDefault",
                                    "response.error")
              ELSE w1
  IN executeHandlers_(w2, q, "onSuccess", "onSuccessDefault", "response")

\* Variant: an error response runs the onResponse handlers only.
callbackIgnoresError(w, q, response) ==
  LET w1 == executeHandlers_(w, q, "onResponse", "onResponseDefault",
                             "undefined")
  IN IF response = "error"
       THEN w1
       ELSE executeHandlers_(w1, q, "onSuccess", "onSuccessDefault",
                             "response")

\* GaQuery.prototype.callback.
callback(w, q, response) ==
  LET w1 == executeHandlers_(w, q, "onResponse", "onResponseDefault",
                             "undefined")
  IN IF response = "error"
       THEN executeHandlers_(w1, q, "onError", "onErrorDefault",
                             "response.error")
       ELSE executeHandlers_(w1, q, "onSuccess", "onSuccessDefault",
                             "response")

\* ------------------------------------------------------- command queue
RECURSIVE CommandLoop(_, _)

\* The loop of executeCommandQueue_ from (1-based) position i: the queue is
\* read again at every iteration.
CommandLoop(w, i) ==
  IF i > Len(w.commandQueue_) THEN w
  ELSE LET q == w.commandQueue_[i]
           w1 == Log([w EXCEPT !.queueRuns[i] = @ + 1],
                     [Blank EXCEPT !.t = "command", !.q = q, !.n = i])
       IN CommandLoop(executeFunction_(w1, q), i + 1)

\* gadash.executeCommandQueue_.
executeCommandQueue_(w) == CommandLoop(w, 1)

\* ------------------------------------------------------ ProfileSelect
\* ProfileSelect.prototype.loadAccounts: one Management API list request.
loadAccounts(w, p) ==
  Log([w EXCEPT !.mgmtRequests = @ + 1],
      [Blank EXCEPT !.t = "request", !.fn = "management.accounts.list",
                    !.n = p, !.ret = Flag(w)])

\* ProfileSelect.prototype.initLoad (the saved selection and the change
\* handlers do not bear on the requests issued here).
initLoad(w, p) ==
  loadAccounts(Log(w, [Blank EXCEPT !.t = "initLoad", !.n = p]), p)

\* --------------------------------------------------------------- pubsub
RECURSIVE PublishLoop(_, _)

\* The loop of gadash.util.pubsub.publish over the subscribers of
\* libsLoaded.  Subscriber 0 is gadash.executeCommandQueue_, subscriber
\* p > 0 the bound initLoad of ProfileSelect p.
PublishLoop(w, i) ==
  IF i > Len(w.subscribers) THEN w
  ELSE LET f == w.subscribers[i]
       IN PublishLoop(IF f = 0 THEN executeCommandQueue_(w)
                               ELSE initLoad(w, f), i + 1)

\* gadash.util.pubsub.publish(libsLoaded).
publish(w) ==
  PublishLoop(Log(w, [Blank EXCEPT !.t = "publish", !.ret = Flag(w)]), 1)

\* ----------------------------------------------------------------- auth
\* gadash.getIncrementalCallback: whether the returned function, having
\* been called callbackCount times, calls finalCallback.
IncrementalCallbackFires(callbackCount_, numberOfCallbacks) ==
  callbackCount_ >= numberOfCallbacks

\* Variant: the analytics client is loaded whatever the result is.
AnalyticsLoadsAlways(authResult) == TRUE

\* gadash.auth.handleAuthResult_, the test `if (authResult)`: whether
\* gapi.client.load('analytics', version, loadUserName_) is called.
AnalyticsLoads(authResult) == authResult

\* Variant: the flag is left alone, libsLoaded is published.
LibsLoadedNotSet(w) == publish(w)

\* Variant: onUnAuthorizedDefault runs whatever the user's handler returned.
UnAuthorizedDefaultAlways(cfg, ret) == TRUE

\* gadash.auth.handleAuthResult_, else branch: whether onUnAuthorizedDefault
\* runs, the user's onUnAuthorized having returned ret.
UnAuthorizedDefaultRuns(cfg, ret) ==
  IF getType(cfg.onUnAuthorized) = "function" THEN NotFalse(ret) ELSE TRUE

\* gadash.auth.loadUserNameHander_: whether onAuthorizedDefault runs, the
\* user's onAuthorized having returned ret.
AuthorizedDefaultRuns(cfg, ret) ==
  IF getType(cfg.onAuthorized) = "function" THEN NotFalse(ret) ELSE TRUE

\* Variant: isLoaded is set and nothing is published.
LibsLoadedNoPublish(w) == [w EXCEPT !.isLoaded = TRUE]

\* Variant: libsLoaded is published before isLoaded is set.
LibsLoadedLate(w) == [publish(w) EXCEPT !.isLoaded = TRUE]

\* gadash.auth.loadUserNameHander_, from the line that sets isLoaded:
\* gadash.isLoaded = true; publish(libsLoaded).
LibsLoaded(w) == publish([w EXCEPT !.isLoaded = TRUE])

\* Auth handlers the page passes to gadash.init.
AuthConfigs ==
  {NoConfig, [onAuthorized |-> "userFn", onUnAuthorized |-> "userFn"]}

\* --------------------------------------------------------------- oracles
\* What the user handlers that run in one action return.
Oracle(evs, f) ==
  [q \in Queries |-> [e \in Events |-> IF e \in evs THEN f[q] ELSE "undefined"]]

\* The oracles of an action that runs onRequest handlers, the configs being
\* cfg: a query without a user onRequest gets the value "undefined".
RequestOracles(cfg) ==
  {Oracle({"onRequest"}, f) :
     f \in {g \in [Queries -> RetVals] :
              \A x \in Queries :
                getType(cfg[x]["onRequest"]) # "function" => g[x] = "undefined"}}

\* The oracles of an action that runs the response handlers of query q: a
\* for onResponse, b for onSuccess and onError.
ResponseOracles(cfg, q) ==
  {[x \in Queries |->
      [e \in Events |-> IF x # q \/ e = "onRequest" THEN "undefined"
                        ELSE IF e = "onResponse" THEN a ELSE b]] :
     a \in {r \in RetVals : getType(cfg[q]["onResponse"]) # "function"
                               => r = "undefined"},
     b \in {r \in RetVals : getType(cfg[q]["onError"]) # "function"
                               => r = "undefined"}}

\* <<by, to>>: the onRequest handler of query by calls to.execute(); <<0, 0>>:
\* no onRequest handler calls execute.
Nests(cfg) ==
  {<<0, 0>>} \cup {n \in Queries \X Queries :
                     n[1] # n[2] /\ getType(cfg[n[1]]["onRequest"]) = "function"}

\* ------------------------------------------------------- world and store
World(ora, nest) ==
  [isLoaded |-> isLoaded, commandQueue_ |-> commandQueue_,
   subscribers |-> subscribers, config |-> config, requests |-> requests,
   element |-> element, errorsDiv |-> errorsDiv,
   mgmtRequests |-> mgmtRequests, callOrder |-> callOrder,
   queueRuns |-> queueRuns, trace |-> <<>>, ora |-> ora,
   nestBy |-> nest[1], nestTo |-> nest[2]]

NoOracle == Oracle({}, [q \in Queries |-> "undefined"])

Store(w) ==
  /\ isLoaded' = w.isLoaded
  /\ commandQueue_' = w.commandQueue_
  /\ subscribers' = w.subscribers
  /\ config' = w.config
  /\ requests' = w.requests
  /\ element' = w.element
  /\ errorsDiv' = w.errorsDiv
  /\ mgmtRequests' = w.mgmtRequests
  /\ callOrder' = w.callOrder
  /\ queueRuns' = w.queueRuns
  /\ trace' = w.trace

worldVars == <<isLoaded, commandQueue_, subscribers, config, requests,
               element, errorsDiv, mgmtRequests, callOrder, queueRuns>>

loadVars == <<inits, authConfig, pendingScripts, loadedKinds, callbackCount>>

authVars == <<timers, authPending, authButton, apiLoadPending,
              userInfoPending>>

\* ----------------------------------------------------------------- Init
\* The pages: which builder made each query object.
Pages ==
  {[q \in Queries |-> IF q = 1 THEN getCoreQuery ELSE getCoreChart],
   [q \in Queries |-> IF q = 1 THEN DirectQuery ELSE getCoreQuery],
   [q \in Queries |-> IF q = 1 THEN getCoreChart ELSE DirectQuery]}

\* The page of the load specification: a core query and a chart.
LoadPage == [q \in Queries |-> IF q = 1 THEN getCoreQuery ELSE getCoreChart]

\* No function on values has been applied.
NoCall == [fn |-> ""]

NoValues == today = 0 /\ heap = <<>> /\ call = NoCall

\* The state once the library's scripts have been evaluated and the page
\* has built its query objects.
Fresh ==
  /\ inits = 0
  /\ authConfig = [onAuthorized |-> "undefined", onUnAuthorized |-> "undefined"]
  /\ pendingScripts = {}
  /\ loadedKinds = {}
  /\ callbackCount = 0
  /\ timers = 0
  /\ authPending = 0
  /\ authButton = FALSE
  /\ apiLoadPending = 0
  /\ userInfoPending = 0
  /\ isLoaded = FALSE
  /\ commandQueue_ = <<>>
  /\ subscribers = <<0>>
  /\ requests = [q \in Queries |-> 0]
  /\ element = [q \in Queries |-> ""]
  /\ errorsDiv = 0
  /\ selects = 0
  /\ mgmtRequests = 0
  /\ calls = 0
  /\ callOrder = <<>>
  /\ queueRuns = <<>>
  /\ trace = <<>>

Start == NoValues /\ Fresh

Init == Start /\ config = LoadPage

\* The variables of the load chain, the queue and the queries.
programVars == <<loadVars, authVars, worldVars, selects, calls, trace>>

\* The state of a page of Pages once gadash.init(cfg) has been called, both
\* scripts have signalled, the immediate authorization check has returned a
\* truthy result and gapi.client.load has called loadUserName_: the
\* user-info request is in flight.
UserInfoRequested ==
  /\ NoValues
  /\ inits = 1
  /\ authConfig \in {extend(cfg, [onAuthorized |-> "undefined",
                                  onUnAuthorized |-> "undefined"]) :
                        cfg \in AuthConfigs}
  /\ pendingScripts = {}
  /\ loadedKinds = ScriptKinds
  /\ callbackCount = NumberOfScripts
  /\ timers = 0
  /\ authPending = 0
  /\ authButton = FALSE
  /\ apiLoadPending = 0
  /\ userInfoPending = 1
  /\ isLoaded = FALSE
  /\ commandQueue_ = <<>>
  /\ subscribers = <<0>>
  /\ config \in Pages
  /\ requests = [q \in Queries |-> 0]
  /\ element = [q \in Queries |-> ""]
  /\ errorsDiv = 0
  /\ selects = 0
  /\ mgmtRequests = 0
  /\ calls = 0
  /\ callOrder = <<>>
  /\ queueRuns = <<>>
  /\ trace = <<[Blank EXCEPT !.t = "loadUserName_"]>>

\* -------------------------------------------------------------- actions
\* The page calls gadash.init(cfg): the config is merged, loadJs_ builds a
\* new counting callback, stores it in window.__globalCallback and inserts
\* one script tag per url.
InitCall(cfg) ==
  /\ UNCHANGED valueVars
  /\ inits < MaxInits
  /\ inits' = inits + 1
  /\ authConfig' = extend(cfg, authConfig)
  /\ callbackCount' = 0
  /\ pendingScripts' = pendingScripts \cup {<<inits + 1, k>> : k \in ScriptKinds}
  /\ trace' = <<[Blank EXCEPT !.t = "init", !.n = inits + 1]>>
  /\ UNCHANGED <<loadedKinds, authVars, worldVars, selects, calls>>

\* A script tag has loaded and calls window.__globalCallback(): the counting
\* callback, which runs window.gadashInit_ once the count is reached.
\* gadashInit_ uses gapi: it throws unless client.js has loaded.
ScriptSignal(s) ==
  /\ UNCHANGED valueVars
  /\ s \in pendingScripts
  /\ LET count == callbackCount + 1
         kinds == loadedKinds \cup {s[2]}
         fires == IncrementalCallbackFires(count, NumberOfScripts)
         gapi == "client" \in kinds
     IN /\ pendingScripts' = pendingScripts \ {s}
        /\ loadedKinds' = kinds
        /\ callbackCount' = count
        /\ timers' = IF fires /\ gapi THEN timers + 1 ELSE timers
        /\ trace' = <<[Blank EXCEPT !.t = "signal", !.fn = s[2], !.n = count]>>
             \o (IF fires
                   THEN <<[Blank EXCEPT
                             !.t = "gadashInit_", !.n = count,
                             !.arg = IF kinds = ScriptKinds THEN "both"
                                     ELSE "notBoth",
                             !.ret = IF gapi THEN "setTimeout" ELSE "throws"]>>
                   ELSE <<>>)
  /\ UNCHANGED <<inits, authConfig, authPending, authButton,
                 apiLoadPending, userInfoPending, worldVars, selects, calls>>

\* The timer set by gadashInit_ fires: checkAuth_ asks for an immediate
\* authorization check.
TimerFire ==
  /\ UNCHANGED valueVars
  /\ timers > 0
  /\ timers' = timers - 1
  /\ authPending' = authPending + 1
  /\ trace' = <<[Blank EXCEPT !.t = "checkAuth_"]>>
  /\ UNCHANGED <<loadVars, authButton, apiLoadPending,
                 userInfoPending, worldVars, selects, calls>>

\* The user clicks the authorize button: gadash.auth.authorize.
AuthorizeClick ==
  /\ UNCHANGED valueVars
  /\ authButton
  /\ calls < MaxCalls
  /\ calls' = calls + 1
  /\ authPending' = authPending + 1
  /\ trace' = <<[Blank EXCEPT !.t = "authorize"]>>
  /\ UNCHANGED <<loadVars, timers, authButton, apiLoadPending,
                 userInfoPending, worldVars, selects>>

\* gapi.auth.authorize calls back: gadash.auth.handleAuthResult_.
AuthResult(authResult, ret) ==
  /\ UNCHANGED valueVars
  /\ authPending > 0
  /\ authPending' = authPending - 1
  /\ IF AnalyticsLoads(authResult)
       THEN /\ apiLoadPending' = apiLoadPending + 1
            /\ authButton' = authButton
            /\ trace' = <<[Blank EXCEPT !.t = "handleAuthResult_",
                                        !.arg = IF authResult THEN "truthy"
                                                ELSE "falsy"]>>
       ELSE /\ apiLoadPending' = apiLoadPending
            /\ authButton' = IF UnAuthorizedDefaultRuns(authConfig, ret)
                               THEN TRUE ELSE authButton
            /\ trace' =
                 <<[Blank EXCEPT !.t = "handleAuthResult_", !.arg = "falsy"]>>
                 \o (IF getType(authConfig.onUnAuthorized) = "function"
                       THEN <<[Blank EXCEPT !.t = "user",
                                            !.ev = "onUnAuthorized",
                                            !.fn = "userFn", !.ret = ret]>>
                       ELSE <<>>)
                 \o (IF UnAuthorizedDefaultRuns(authConfig, ret)
                       THEN <<[Blank EXCEPT !.t = "default",
                                            !.ev = "onUnAuthorized",
                                            !.fn = "onUnAuthorizedDefault"]>>
                       ELSE <<>>)
  /\ UNCHANGED <<loadVars, timers, userInfoPending, worldVars,
                 selects, calls>>

\* gapi.client.load('analytics') calls back: gadash.auth.loadUserName_.
AnalyticsLoaded ==
  /\ UNCHANGED valueVars
  /\ apiLoadPending > 0
  /\ apiLoadPending' = apiLoadPending - 1
  /\ userInfoPending' = userInfoPending + 1
  /\ trace' = <<[Blank EXCEPT !.t = "loadUserName_"]>>
  /\ UNCHANGED <<loadVars, timers, authPending, authButton,
                 worldVars, selects, calls>>

\* The user-info response arrives: gadash.auth.loadUserNameHander_.
UserInfoResponse(ret, ora, nest) ==
  /\ UNCHANGED valueVars
  /\ userInfoPending > 0
  /\ userInfoPending' = userInfoPending - 1
  /\ authButton' = IF AuthorizedDefaultRuns(authConfig, ret)
                     THEN FALSE ELSE authButton
  /\ LET w0 == World(ora, nest)
         w1 == Log(w0, [Blank EXCEPT !.t = "loadUserNameHander_"])
         w2 == IF getType(authConfig.onAuthorized) = "function"
                 THEN Log(w1, [Blank EXCEPT !.t = "user",
                                            !.ev = "onAuthorized",
                                            !.fn = "userFn", !.ret = ret])
                 ELSE w1
         w3 == IF AuthorizedDefaultRuns(authConfig, ret)
                 THEN Log(w2, [Blank EXCEPT !.t = "default",
                                            !.ev = "onAuthorized",
                                            !.fn = "onAuthorizedDefault"])
                 ELSE w2
     IN Store(LibsLoaded(w3))
  /\ UNCHANGED <<loadVars, timers, authPending, apiLoadPending,
                 selects, calls>>

\* The page script calls q.execute(opt_config).
Execute(q, opt_config, ora, nest) ==
  /\ UNCHANGED valueVars
  /\ calls < MaxCalls
  /\ calls' = calls + 1
  /\ Store(execute(World(ora, nest), q, opt_config))
  /\ UNCHANGED <<loadVars, authVars, selects>>

\* The page script calls q.setConfig(cfg).
SetConfig(q, cfg) ==
  /\ UNCHANGED valueVars
  /\ calls < MaxCalls
  /\ calls' = calls + 1
  /\ Store(setConfig(Log(World(NoOracle, <<0, 0>>),
                         [Blank EXCEPT !.t = "setConfig", !.q = q,
                                       !.arg = actualQuery(cfg)]), q, cfg))
  /\ UNCHANGED <<loadVars, authVars, selects>>

\* The Core Reporting API answers a request of query q: the bound callback.
Response(q, response, ora) ==
  /\ UNCHANGED valueVars
  /\ requests[q] > 0
  /\ LET w0 == World(ora, <<0, 0>>)
         w1 == Log([w0 EXCEPT !.requests[q] = @ - 1],
                   [Blank EXCEPT !.t = "response", !.q = q, !.arg = response])
     IN Store(callback(w1, q, response))
  /\ UNCHANGED <<loadVars, authVars, selects, calls>>

\* The page builds a ProfileSelect: initLoad now when the libraries have
\* loaded, else subscribed to libsLoaded.
NewProfileSelect ==
  /\ UNCHANGED valueVars
  /\ calls < MaxCalls
  /\ calls' = calls + 1
  /\ selects' = selects + 1
  /\ LET p == selects + 1
         w0 == Log(World(NoOracle, <<0, 0>>),
                   [Blank EXCEPT !.t = "ProfileSelect", !.n = p])
     IN Store(IF isLoaded THEN initLoad(w0, p)
                          ELSE [w0 EXCEPT !.subscribers = Append(@, p)])
  /\ UNCHANGED <<loadVars, authVars>>

\* Auth handler return values that matter: "undefined" when none is set.
AuthRets(h) ==
  {r \in RetVals : getType(authConfig[h]) # "function" => r = "undefined"}

\* The page script calls execute on a query of qs, with a config object of
\* cfgs or with none.
ExecuteCall(qs, cfgs) ==
  \E q \in qs, opt_config \in cfgs \cup {NoConfig} :
    LET cfg == [config EXCEPT ![q] = extend(opt_config, @)]
    IN \E ora \in RequestOracles(cfg), nest \in Nests(cfg) :
         Execute(q, opt_config, ora, nest)

\* The user-info response arrives.
UserInfoArrives ==
  \E ret \in AuthRets("onAuthorized") :
    \E ora \in RequestOracles(config), nest \in Nests(config) :
      UserInfoResponse(ret, ora, nest)

\* The callbacks of the load and authorization chain.
AuthNext ==
  \/ \E s \in pendingScripts : ScriptSignal(s)
  \/ TimerFire
  \/ AuthorizeClick
  \/ \E authResult \in BOOLEAN, ret \in AuthRets("onUnAuthorized") :
       AuthResult(authResult, ret)
  \/ AnalyticsLoaded
  \/ UserInfoArrives

\* Load: a page that calls gadash.init once, calls execute on its queries
\* and builds ProfileSelects, at any moment of the load and authorization
\* chain.
Next ==
  \/ \E cfg \in AuthConfigs : inits = 0 /\ InitCall(cfg)
  \/ AuthNext
  \/ ExecuteCall(Queries, RequestConfigs)
  \/ NewProfileSelect

Spec == Init /\ [][Next]_vars

\* Loader: the loader and the authorization chain of a page that calls
\* gadash.init up to MaxInits times.
LoaderNext ==
  \/ \E cfg \in AuthConfigs : InitCall(cfg)
  \/ AuthNext

LoaderSpec == Init /\ [][LoaderNext]_vars

\* The query the page script works on in the query lifecycle specification
\* (its onRequest handler may still call execute on the other query).
Scripted == {1}

\* Query lifecycle: from the moment the user-info request is in flight, the
\* page calls execute and setConfig on its query, the user-info response
\* arrives (the queue is run) and the Core Reporting API answers.
QueryNext ==
  \/ ExecuteCall(Scripted, UserConfigs)
  \/ \E q \in Scripted, cfg \in UserConfigs : SetConfig(q, cfg)
  \/ UserInfoArrives
  \/ \E q \in Queries, response \in Responses :
       \E ora \in ResponseOracles(config, q) : Response(q, response, ora)

QuerySpec == UserInfoRequested /\ [][QueryNext]_vars

\* Config objects that set a parameter of config.query.
QueryConfigs == {[ids |-> "ga:1"], [metrics |-> "ga:visits"]}

\* Drain: while the user-info request is in flight the page calls execute
\* and setConfig on its query with config objects that set the parameters
\* of its request; the user-info response arrives and the queue is run.
DrainNext ==
  \/ ExecuteCall(Scripted, QueryConfigs)
  \/ \E q \in Scripted, cfg \in QueryConfigs : SetConfig(q, cfg)
  \/ UserInfoArrives

DrainSpec == UserInfoRequested /\ [][DrainNext]_vars

\* A step that handles one user-info response: loadUserNameHander_ is the
\* only code that takes a response off the requests in flight, so these are
\* exactly the steps of UserInfoArrives.
UserInfoHandled ==
  userInfoPending > 0 /\ userInfoPending' = userInfoPending - 1

\* Fairness for the load chain: gapi.client.load calls loadUserName_ back
\* and the user-info request calls loadUserNameHander_ back.
LiveSpec ==
  /\ Spec
  /\ WF_vars(AnalyticsLoaded)
  /\ WF_userInfoPending(UserInfoHandled)

\* ------------------------------------------------------------ dates
\* The calendar of the JavaScript Date object (local time).
Years == {2012, 2013}

IsLeap(year) == (year % 4 = 0 /\ year % 100 # 0) \/ year % 400 = 0

DaysIn(year, month) ==
  IF month = 2 THEN (IF IsLeap(year) THEN 29 ELSE 28)
  ELSE IF month \in {4, 6, 9, 11} THEN 30 ELSE 31

Dates ==
  {d \in [year : Years \cup {2011}, month : 1..12, day : 1..31] :
     d.day <= DaysIn(d.year, d.month)}

\* The days on which the page is used: January to March of Years.
TodaySet == {d \in Dates : d.year \in Years /\ d.month <= 3}

RECURSIVE setDate(_, _, _)
\* Date.prototype.setDate(dayValue) on a date of the given year and month:
\* a day before the first or after the last of the month rolls over.
setDate(year, month, dayValue) ==
  IF dayValue < 1
    THEN LET m == IF month = 1 THEN 12 ELSE month - 1
             y == IF month = 1 THEN year - 1 ELSE year
         IN setDate(y, m, dayValue + DaysIn(y, m))
  ELSE IF dayValue > DaysIn(year, month)
    THEN LET m == IF month = 12 THEN 1 ELSE month + 1
             y == IF month = 12 THEN year + 1 ELSE year
         IN setDate(y, m, dayValue - DaysIn(year, month))
  ELSE [year |-> year, month |-> month, day |-> dayValue]

\* Date.prototype.getMonth: months count from 0.
getMonth(date) == date.month - 1

\* Variant: the month is not counted from 1.
lastNdaysMonthFromZero(now, n) ==
  LET before == setDate(now.year, now.month, now.day - n)
      month0 == getMonth(before)
      month == IF month0 < 10 THEN "0" \o ToString(month0)
                              ELSE ToString(month0)
      day == IF before.day < 10 THEN "0" \o ToString(before.day)
                                ELSE ToString(before.day)
  IN ToString(before.year) \o "-" \o month \o "-" \o day

\* gadash.util.lastNdays(n), new Date() giving the day now (the handler
\* reads the clock within one calendar day).
lastNdays(now, n) ==
  LET before == setDate(now.year, now.month, now.day - n)
      year == before.year
      month0 == getMonth(before) + 1
      month == IF month0 < 10 THEN "0" \o ToString(month0)
                              ELSE ToString(month0)
      day == IF before.day < 10 THEN "0" \o ToString(before.day)
                                ELSE ToString(before.day)
  IN ToString(year) \o "-" \o month \o "-" \o day

\* ---------------------------------------------------- getCoreQueryObj
\* Strings that the code splits are sequences of characters.
RECURSIVE split(_, _)
\* String.prototype.split(separator).
split(str, separator) ==
  IF \A i \in DOMAIN str : str[i] # separator THEN <<str>>
  ELSE LET i == CHOOSE j \in DOMAIN str :
                  str[j] = separator /\ \A k \in 1..(j - 1) : str[k] # separator
       IN <<SubSeq(str, 1, i - 1)>>
            \o split(SubSeq(str, i + 1, Len(str)), separator)

RECURSIVE joinConcat(_, _)
\* Variant: the parts are joined without the separator.
joinConcat(parts, separator) ==
  IF Len(parts) = 0 THEN <<>>
  ELSE parts[1] \o joinConcat(Tail(parts), separator)

RECURSIVE join(_, _)
\* Array.prototype.join(separator).
join(parts, separator) ==
  IF Len(parts) = 0 THEN <<>>
  ELSE IF Len(parts) = 1 THEN parts[1]
  ELSE parts[1] \o <<separator>> \o join(Tail(parts), separator)

\* obj[key] = value on a map.
Put(obj, key, value) ==
  [k \in DOMAIN obj \cup {key} |-> IF k = key THEN value ELSE obj[k]]

\* obj[key] = value when the condition holds.
PutIf(condition, obj, key, value) ==
  IF condition THEN Put(obj, key, value) ELSE obj

\* The number of days of the default date range.
DefaultDays == 28

\* Variant: the dates of the page come before lastNdays.
getCoreQueryObjDatesFirst(query, now) ==
  LET q0 == [k \in {} |-> ""]
      q1 == PutIf(query.ids # "", q0, "ids", query.ids)
      q2 == PutIf(query.metrics # <<>>, q1, "metrics",
                  join(split(query.metrics, " "), ","))
      q3 == PutIf(query.dimensions # <<>>, q2, "dimensions",
                  join(split(query.dimensions, " "), ","))
      q4 == PutIf(query.filters # "", q3, "filters", query.filters)
      q5 == PutIf(query.segment # "", q4, "segment", query.segment)
      q6 == PutIf(query.sort # <<>>, q5, "sort",
                  join(split(query.sort, " "), ","))
      q7 == PutIf(query.startIndex # 0, q6, "start-index", query.startIndex)
      q8 == PutIf(query.maxResults # 0, q7, "max-results", query.maxResults)
  IN IF query.startDate # "" /\ query.endDate # ""
       THEN Put(Put(q8, "end-date", query.endDate),
                "start-date", query.startDate)
     ELSE IF query.lastNdays # 0
       THEN Put(Put(q8, "end-date", lastNdays(now, 0)),
                "start-date", lastNdays(now, query.lastNdays))
     ELSE Put(Put(q8, "end-date", lastNdays(now, 0)),
              "start-date", lastNdays(now, DefaultDays))

\* Variant: the keys of config.query are moved over under their own names.
getCoreQueryObjOwnNames(query, now) ==
  LET q0 == [k \in {} |-> ""]
      q1 == PutIf(query.ids # "", q0, "ids", query.ids)
      q2 == PutIf(query.metrics # <<>>, q1, "metrics",
                  join(split(query.metrics, " "), ","))
      q3 == PutIf(query.dimensions # <<>>, q2, "dimensions",
                  join(split(query.dimensions, " "), ","))
      q4 == PutIf(query.filters # "", q3, "filters", query.filters)
      q5 == PutIf(query.segment # "", q4, "segment", query.segment)
      q6 == PutIf(query.sort # <<>>, q5, "sort",
                  join(split(query.sort, " "), ","))
      q7 == PutIf(query.startIndex # 0, q6, "startIndex", query.startIndex)
      q8 == PutIf(query.maxResults # 0, q7, "maxResults", query.maxResults)
  IN IF query.lastNdays # 0
       THEN Put(Put(q8, "end-date", lastNdays(now, 0)),
                "start-date", lastNdays(now, query.lastNdays))
     ELSE IF query.startDate = "" \/ query.endDate = ""
       THEN Put(Put(q8, "end-date", lastNdays(now, 0)),
                "start-date", lastNdays(now, DefaultDays))
     ELSE Put(Put(q8, "end-date", query.endDate),
              "start-date", query.startDate)

\* gadash.core.getCoreQueryObj(config), query being config.query.  A key the
\* page did not set holds "" (a string), <<>> (a list) or 0 (a number), all
\* falsy as undefined is.
getCoreQueryObj(query, now) ==
  LET q0 == [k \in {} |-> ""]
      q1 == PutIf(query.ids # "", q0, "ids", query.ids)
      q2 == PutIf(query.metrics # <<>>, q1, "metrics",
                  join(split(query.metrics, " "), ","))
      q3 == PutIf(query.dimensions # <<>>, q2, "dimensions",
                  join(split(query.dimensions, " "), ","))
      q4 == PutIf(query.filters # "", q3, "filters", query.filters)
      q5 == PutIf(query.segment # "", q4, "segment", query.segment)
      q6 == PutIf(query.sort # <<>>, q5, "sort",
                  join(split(query.sort, " "), ","))
      q7 == PutIf(query.startIndex # 0, q6, "start-index", query.startIndex)
      q8 == PutIf(query.maxResults # 0, q7, "max-results", query.maxResults)
  IN IF query.lastNdays # 0
       THEN Put(Put(q8, "end-date", lastNdays(now, 0)),
                "start-date", lastNdays(now, query.lastNdays))
     ELSE IF query.startDate = "" \/ query.endDate = ""
       THEN Put(Put(q8, "end-date", lastNdays(now, 0)),
                "start-date", lastNdays(now, DefaultDays))
     ELSE Put(Put(q8, "end-date", query.endDate),
              "start-date", query.startDate)

\* Lists the page gives as metrics, dimensions and sort.
Lists ==
  {<<>>, <<"a">>, <<"a", " ", "b">>, <<"-", "a", " ", "b", " ", "c">>}

\* The other parameters of config.query, set or not.
Params ==
  {[ids |-> "", filters |-> "", segment |-> "", startIndex |-> 0,
    maxResults |-> 0, output |-> ""],
   [ids |-> "ga:1", filters |-> "f", segment |-> "s", startIndex |-> 1,
    maxResults |-> 5, output |-> "json"]}

\* The config.query maps of the pages.
QueryInputs ==
  {[ids |-> p.ids, filters |-> p.filters, segment |-> p.segment,
    startIndex |-> p.startIndex, maxResults |-> p.maxResults,
    output |-> p.output, metrics |-> l, dimensions |-> l, sort |-> l,
    startDate |-> sd, endDate |-> ed, lastNdays |-> n] :
     p \in Params, l \in Lists, sd \in {"", "2012-01-01"},
     ed \in {"", "2012-02-01"}, n \in {0, 1, 31}}

\* The page holds a query whose config.query is query.
PageQuery(query) == [fn |-> "query", query |-> query]

CoreInit ==
  /\ Fresh /\ config = LoadPage
  /\ heap = <<>>
  /\ today \in TodaySet
  /\ call \in {PageQuery(query) : query \in QueryInputs}

\* gadash.core.onRequestDefault builds the request of the page's query.
CoreRequest ==
  /\ call.fn = "query"
  /\ call' = [fn |-> "getCoreQueryObj", query |-> call.query, now |-> today,
              actualQuery |-> getCoreQueryObj(call.query, today)]
  /\ UNCHANGED <<programVars, today, heap>>

\* The page gives its query another config.query.
SetQuery(query) ==
  /\ call.fn = "getCoreQueryObj"
  /\ call' = PageQuery(query)
  /\ UNCHANGED <<programVars, today, heap>>

CoreNext ==
  \/ CoreRequest
  \/ \E query \in QueryInputs : SetQuery(query)

\* Core: the requests built from the config.query maps of QueryInputs on
\* the days of TodaySet.
CoreSpec == CoreInit /\ [][CoreNext]_vars

\* ------------------------------------------------------- objects
\* JavaScript values: strings (numbers are written as strings), null,
\* undefined and references to the objects of the heap.
Str(x) == [k |-> "string", s |-> x, r |-> 0]

Null == [k |-> "null", s |-> "", r |-> 0]

Undefined == [k |-> "undefined", s |-> "", r |-> 0]

Ref(address) == [k |-> "ref", s |-> "", r |-> address]

\* A function, by its name.
Fn(name) == [k |-> "function", s |-> name, r |-> 0]

\* The most objects a component is given.
MaxMembers == 4

\* Property names (the indices of an array among them); for..in visits
\* them in the order KeyOrder.
Keys ==
  {"a", "b", "c", "config", "elementId", "query", "ids", "metrics",
   "dimensions", "sort", "maxResults", "type", "chartOptions", "height",
   "colors", "onErrorDefault", "legend", "position", "objects_", "length",
   "configObj", "configLastObj", "configLastKey", "value", "controls_",
   "charts_"}
    \cup {ToString(i) : i \in 0..MaxMembers}

KeyOrder ==
  <<"a", "b", "c", "config", "elementId", "query", "ids", "metrics",
    "dimensions", "sort", "maxResults", "type", "chartOptions", "height",
    "colors", "onErrorDefault", "legend", "position", "objects_", "length",
    "configObj", "configLastObj", "configLastKey", "value", "controls_",
    "charts_">>
    \o [i \in 1..(MaxMembers + 1) |-> ToString(i - 1)]

NoProps == [key \in Keys |-> Undefined]

\* {} with the given properties, [] with the given elements, a GaQuery.
Obj(props) == [class |-> "object", props |-> props]

Arr(props) == [class |-> "array", props |-> props]

\* JavaScript truthiness.
Truthy(value) ==
  value.k \in {"ref", "function"} \/ (value.k = "string" /\ value.s # "")

\* gadash.util.getType of a value of the heap h.
getTypeOf(h, value) ==
  IF value.k = "ref"
    THEN IF h[value.r].class = "array" THEN "array" ELSE "object"
  ELSE IF value.k \in {"string", "function"} THEN value.k
  ELSE "undefined"

\* target[key], target being a value: a property of a string is undefined.
Get(h, target, key) ==
  IF target.k = "ref" THEN h[target.r].props[key] ELSE Undefined

\* target[key] = value: ignored when target is a string.
Set(e, target, key, value) ==
  IF target.k = "ref"
    THEN [e EXCEPT !.heap[target.r].props[key] = value]
    ELSE e

RECURSIVE extendKeys(_, _, _, _)

\* Variant: only undefined values are skipped, null is copied.
extendKeysCopiesNull(e, from, to, i) ==
  IF e.threw \/ i > Len(KeyOrder) THEN e
  ELSE LET key == KeyOrder[i]
           value == e.heap[from].props[key]
       IN IF value.k = "undefined" THEN extendKeys(e, from, to, i + 1)
          ELSE extendKeys(Set(e, to, key, value), from, to, i + 1)

\* Variant: an object of from replaces what to holds at the key.
extendKeysShallow(e, from, to, i) ==
  IF e.threw \/ i > Len(KeyOrder) THEN e
  ELSE LET key == KeyOrder[i]
           value == e.heap[from].props[key]
       IN IF value.k \in {"null", "undefined"}
            THEN extendKeys(e, from, to, i + 1)
            ELSE extendKeys(Set(e, to, key, value), from, to, i + 1)

\* The for..in loop of gadash.util.extend(from, to) from the i-th key on;
\* from is the address of an object, to a value.  e.heap is the heap and
\* e.threw tells that a TypeError was thrown (a property of undefined).
extendKeys(e, from, to, i) ==
  IF e.threw \/ i > Len(KeyOrder) THEN e
  ELSE LET key == KeyOrder[i]
           value == e.heap[from].props[key]
       IN IF value.k \in {"null", "undefined"}
            THEN extendKeys(e, from, to, i + 1)
          ELSE IF to.k \in {"null", "undefined"}
            THEN [e EXCEPT !.threw = TRUE]
          ELSE IF getTypeOf(e.heap, value) = "object"
            THEN LET old == Get(e.heap, to, key)
                     fresh == Len(e.heap) + 1
                     e1 == IF Truthy(old) \/ to.k # "ref" THEN e
                           ELSE Set([e EXCEPT !.heap = Append(@, Obj(NoProps))],
                                    to, key, Ref(fresh))
                     e2 == extendKeys(e1, value.r, Get(e1.heap, to, key), 1)
                 IN extendKeys(e2, from, to, i + 1)
          ELSE extendKeys(Set(e, to, key, value), from, to, i + 1)

\* gadash.util.extend(from, to) on values: nothing to visit unless from is
\* an object.
utilExtend(e, from, to) ==
  IF from.k = "ref" THEN extendKeys(e, from.r, to, 1) ELSE e

\* The objects the page script holds: the example of the doc of extend
\* ({'a': {'b': 2}} and {'a': {'c': 1}}, with a number and a null beside),
\* a map with a string under 'a', and builder defaults with an array.
PageHeap ==
  << Obj([NoProps EXCEPT !["a"] = Ref(2), !["c"] = Str("1")]),
     Obj([NoProps EXCEPT !["b"] = Str("2")]),
     Obj([NoProps EXCEPT !["a"] = Ref(4), !["c"] = Null]),
     Obj([NoProps EXCEPT !["c"] = Str("1")]),
     Obj([NoProps EXCEPT !["a"] = Str("x")]),
     Obj([NoProps EXCEPT !["a"] = Ref(7)]),
     Arr([NoProps EXCEPT !["a"] = Str("#058dc7")]) >>

\* The config objects of the page (the addresses of their roots).
PageRoots == {1, 3, 5, 6}

RECURSIVE ReachableFrom(_, _)
\* The addresses of the objects reached from the value.
ReachableFrom(h, value) ==
  IF value.k # "ref" THEN {}
  ELSE {value.r} \cup
       UNION {ReachableFrom(h, h[value.r].props[key]) : key \in Keys}

\* The objects the page holds: its config objects and what is nested in them.
PageOwned(h) == UNION {ReachableFrom(h, Ref(root)) : root \in PageRoots}

\* The GaQuery instances built.
Instances(h) == {a \in DOMAIN h : h[a].class = "GaQuery"}

ObjInit ==
  /\ Fresh /\ config = LoadPage
  /\ today = 0
  /\ heap = PageHeap
  /\ call = [fn |-> "", src |-> 0, dst |-> 0, pre |-> <<>>, threw |-> FALSE]

\* The frame of the actions on objects: one more page-script call.
ObjCall ==
  /\ calls < MaxCalls
  /\ calls' = calls + 1
  /\ UNCHANGED <<loadVars, authVars, worldVars, selects, trace, today>>

\* The page calls gadash.util.extend(from, to) on two of its objects.
Extend(from, to) ==
  /\ ObjCall
  /\ LET e == utilExtend([heap |-> heap, threw |-> FALSE], Ref(from), Ref(to))
     IN /\ heap' = e.heap
        /\ call' = [fn |-> "extend", src |-> from, dst |-> to, pre |-> heap,
                    threw |-> e.threw]

\* The page calls new gadash.GaQuery(opt_config): this.config = {};
\* this.setConfig(opt_config).  opt_config is a page object or undefined.
NewGaQuery(opt_config) ==
  /\ ObjCall
  /\ LET cfg == Len(heap) + 1
         this == Len(heap) + 2
         h == heap \o << Obj(NoProps),
                         [class |-> "GaQuery",
                          props |-> [NoProps EXCEPT !["config"] = Ref(cfg)]] >>
         e == utilExtend([heap |-> h, threw |-> FALSE], opt_config, Ref(cfg))
     IN /\ heap' = e.heap
        /\ call' = [fn |-> "GaQuery", src |-> opt_config.r, dst |-> this,
                    pre |-> heap, threw |-> e.threw]

\* The page calls this.setConfig(config) on a query (execute(opt_config)
\* starts with the same call).
QuerySetConfig(this, cfg) ==
  /\ ObjCall
  /\ this \in Instances(heap)
  /\ LET e == utilExtend([heap |-> heap, threw |-> FALSE], Ref(cfg),
                         heap[this].props["config"])
     IN /\ heap' = e.heap
        /\ call' = [fn |-> "setConfig", src |-> cfg, dst |-> this,
                    pre |-> heap, threw |-> e.threw]

\* The page modifies one of its own objects: object[key] = value (for an
\* array: one more element).
Modify(object, key, value) ==
  /\ ObjCall
  /\ object \in PageOwned(heap)
  /\ heap' = [heap EXCEPT ![object].props[key] = value]
  /\ call' = [fn |-> "modify", src |-> 0, dst |-> object, pre |-> heap,
              threw |-> FALSE]

ObjNext ==
  \/ \E from \in PageRoots : \E to \in PageRoots \ {from} : Extend(from, to)
  \/ \E opt_config \in {Undefined} \cup {Ref(root) : root \in PageRoots} :
       NewGaQuery(opt_config)
  \/ \E this \in DOMAIN heap, cfg \in PageRoots : QuerySetConfig(this, cfg)
  \/ \E object \in DOMAIN heap : Modify(object, "b", Str("z"))

\* Objects: the page's config objects, the queries built from them, and the
\* copies gadash.util.extend makes.
ObjSpec == ObjInit /\ [][ObjNext]_vars

\* ------------------------------------------------------- chart builders
\* The objects of gviz.js (coreChartConfig, defaultGvizChartOptions and the
\* defaults of each chart type, with what they nest) and two config objects
\* of the page.
ChartHeap ==
  << Obj([NoProps EXCEPT !["onErrorDefault"] = Fn("gadash.onErrorDefault")]),
     Obj([NoProps EXCEPT !["chartOptions"] = Ref(3)]),
     Obj([NoProps EXCEPT !["height"] = Str("300")]),
     Obj([NoProps EXCEPT !["type"] = Str("AreaChart"),
                         !["chartOptions"] = Ref(5)]),
     Obj([NoProps EXCEPT !["colors"] = Ref(6)]),
     Arr([NoProps EXCEPT !["a"] = Str("#058dc7")]),
     Obj([NoProps EXCEPT !["type"] = Str("PieChart"),
                         !["chartOptions"] = Ref(8)]),
     Obj([NoProps EXCEPT !["legend"] = Ref(9)]),
     Obj([NoProps EXCEPT !["position"] = Str("right")]),
     Obj([NoProps EXCEPT !["type"] = Str("BarChart"),
                         !["chartOptions"] = Ref(11)]),
     Obj([NoProps EXCEPT !["colors"] = Ref(12)]),
     Arr([NoProps EXCEPT !["a"] = Str("#058dc7"), !["b"] = Str("#d14836")]),
     Obj([NoProps EXCEPT !["type"] = Str("ColumnChart"),
                         !["chartOptions"] = Ref(14)]),
     Obj([NoProps EXCEPT !["colors"] = Ref(15)]),
     Arr([NoProps EXCEPT !["a"] = Str("#058dc7"), !["b"] = Str("#d14836")]),
     Obj([NoProps EXCEPT !["elementId"] = Str("mine"),
                         !["type"] = Str("Table"),
                         !["query"] = Ref(17)]),
     Obj([NoProps EXCEPT !["metrics"] = Str("ga:visits")]),
     Obj([NoProps EXCEPT !["query"] = Ref(19)]),
     Obj([NoProps EXCEPT !["ids"] = Str("ga:2")]) >>

\* Where the objects of gviz.js are in ChartHeap.
gviz ==
  [coreChartConfig |-> 1, defaultGvizChartOptions |-> 2, areaChart |-> 4,
   pieChart |-> 7, barChart |-> 10, columnChart |-> 13]

\* The var_args builders and the chart-type defaults each one sets.
ChartBuilders ==
  {"getCoreLineChart", "getCorePieChart", "getCoreBarChart",
   "getCoreColumnChart"}

ChartDefaults(builder) ==
  CASE builder = "getCoreLineChart" -> gviz.areaChart
    [] builder = "getCorePieChart" -> gviz.pieChart
    [] builder = "getCoreBarChart" -> gviz.barChart
    [] builder = "getCoreColumnChart" -> gviz.columnChart

\* The functions of argSetters, by the property they set: argSetter(obj, arg).
argSetter(e, name, obj, arg) ==
  LET query == Get(e.heap, Ref(obj), "query")
  IN CASE name = "elementId" -> Set(e, Ref(obj), "elementId", arg)
       [] name = "metrics" -> Set(e, query, "metrics", arg)
       [] name = "metricsAndSort" ->
            Set(Set(e, query, "metrics", arg), query, "sort",
                Str("-" \o arg.s))
       [] name = "dimensions" -> Set(e, query, "dimensions", arg)
       [] name = "ids" -> Set(e, query, "ids", arg)

RECURSIVE argsLoopNoBreak(_, _, _, _, _, _)
\* Variant of the loop without the break: the last object is the user
\* config and the arguments after an object are still assigned.
argsLoopNoBreak(e, baseConfig, argSetters, args, i, userConfig) ==
  IF i > Len(args)
    THEN [e |-> e, baseConfig |-> baseConfig, userConfig |-> userConfig]
  ELSE IF getTypeOf(e.heap, args[i]) = "object"
    THEN argsLoopNoBreak(e, baseConfig, argSetters, args, i + 1, args[i])
  ELSE IF i <= Len(argSetters)
    THEN argsLoopNoBreak(argSetter(e, argSetters[i], baseConfig, args[i]),
                         baseConfig, argSetters, args, i + 1, userConfig)
  ELSE argsLoopNoBreak(e, baseConfig, argSetters, args, i + 1, userConfig)

getConfigFromArgsNoBreak(e, baseConfig, argSetters, args) ==
  argsLoopNoBreak(e, baseConfig, argSetters, args, 1, Undefined)

RECURSIVE argsLoop(_, _, _, _, _)
\* The loop of getConfigFromArgs from the i-th argument on (args[i - 1] of
\* the code).
argsLoop(e, baseConfig, argSetters, args, i) ==
  IF i > Len(args)
    THEN [e |-> e, baseConfig |-> baseConfig, userConfig |-> Undefined]
  ELSE IF getTypeOf(e.heap, args[i]) = "object"
    THEN [e |-> e, baseConfig |-> baseConfig, userConfig |-> args[i]]
  ELSE IF i <= Len(argSetters)
    THEN argsLoop(argSetter(e, argSetters[i], baseConfig, args[i]),
                  baseConfig, argSetters, args, i + 1)
  ELSE argsLoop(e, baseConfig, argSetters, args, i + 1)

\* gadash.gviz.getConfigFromArgs(baseConfig, argSetters, args).
getConfigFromArgs(e, baseConfig, argSetters, args) ==
  argsLoop(e, baseConfig, argSetters, args, 1)

\* gadash.gviz.getCommonConfigFromArgs(args): baseConfig is a new object.
getCommonConfigFromArgs(e, args) ==
  LET query == Len(e.heap) + 1
      baseConfig == Len(e.heap) + 2
      h == e.heap \o
             << Obj([NoProps EXCEPT !["ids"] = Str(""),
                                    !["metrics"] = Str(""),
                                    !["dimensions"] = Str("ga:date")]),
                Obj([NoProps EXCEPT !["elementId"] = Str(""),
                                    !["query"] = Ref(query)]) >>
  IN getConfigFromArgs([e EXCEPT !.heap = h], baseConfig,
                       <<"elementId", "metrics", "ids">>, args)

\* The baseConfig and argSetters of gadash.getCorePieChart.
getPieConfigFromArgs(e, args) ==
  LET query == Len(e.heap) + 1
      baseConfig == Len(e.heap) + 2
      h == e.heap \o
             << Obj([NoProps EXCEPT !["ids"] = Str(""),
                                    !["metrics"] = Str(""),
                                    !["sort"] = Str(""),
                                    !["dimensions"] = Str(""),
                                    !["maxResults"] = Str("5")]),
                Obj([NoProps EXCEPT !["elementId"] = Str(""),
                                    !["query"] = Ref(query)]) >>
  IN getConfigFromArgs([e EXCEPT !.heap = h], baseConfig,
                       <<"elementId", "metricsAndSort", "dimensions", "ids">>,
                       args)

\* gadash.getCoreLineChart, getCorePieChart, getCoreBarChart and
\* getCoreColumnChart called with the arguments args on the heap h: the
\* heap after the call and the query built.
getCoreChartOf(builder, h, args) ==
  LET e0 == [heap |-> h, threw |-> FALSE]
      argsObj == IF builder = "getCorePieChart"
                   THEN getPieConfigFromArgs(e0, args)
                   ELSE getCommonConfigFromArgs(e0, args)
      cfg == Len(argsObj.e.heap) + 1
      this == Len(argsObj.e.heap) + 2
      e1 == [argsObj.e EXCEPT !.heap = @ \o
               << Obj(NoProps),
                  [class |-> "GaQuery",
                   props |-> [NoProps EXCEPT !["config"] = Ref(cfg)]] >>]
      e2 == utilExtend(e1, Ref(gviz.coreChartConfig), Ref(cfg))
      e3 == utilExtend(e2, Ref(argsObj.baseConfig), Ref(cfg))
      e4 == utilExtend(e3, Ref(gviz.defaultGvizChartOptions), Ref(cfg))
      e5 == utilExtend(e4, Ref(ChartDefaults(builder)), Ref(cfg))
      e6 == utilExtend(e5, argsObj.userConfig, Ref(cfg))
  IN [heap |-> e6.heap, threw |-> e6.threw, this |-> this]

\* What the page passes to a builder: strings and its two config objects.
MaxArgs == 5

ArgValues == {Str("p"), Str("q"), Ref(16), Ref(18)}

\* The page has written these arguments of its call of a builder.
PageArgs(args) == [fn |-> "args", args |-> args, this |-> 0, threw |-> FALSE]

ChartInit ==
  /\ Fresh /\ config = LoadPage
  /\ today = 0
  /\ heap = ChartHeap
  /\ call = PageArgs(<<>>)

\* The page calls the builder with the arguments it has chosen.
ChartBuild(builder) ==
  /\ call.fn = "args"
  /\ LET built == getCoreChartOf(builder, heap, call.args)
     IN /\ heap' = built.heap
        /\ call' = [fn |-> builder, args |-> call.args, this |-> built.this,
                    threw |-> built.threw]
  /\ UNCHANGED <<programVars, today>>

\* The page passes one more argument.
AddArg(arg) ==
  /\ call.fn = "args"
  /\ Len(call.args) < MaxArgs
  /\ call' = PageArgs(Append(call.args, arg))
  /\ UNCHANGED <<programVars, today, heap>>

ChartNext ==
  \/ \E builder \in ChartBuilders : ChartBuild(builder)
  \/ \E arg \in ArgValues : AddArg(arg)

\* Charts: every var_args builder on every list of at most MaxArgs
\* arguments of ArgValues.
ChartSpec == ChartInit /\ [][ChartNext]_vars

\* ----------------------------------------------------------- components
\* The methods of the classes of the library.
Methods(class) ==
  CASE class = "GaQuery" -> {"setConfig", "execute"}
    [] class = "GaControl" -> {"getConfig", "getValue"}
    [] class = "Dashboard" -> {"getConfig", "setConfig", "execute"}
    [] class = "GaComponent" -> {"getConfig", "setConfig", "execute"}
    [] OTHER -> {}

\* object[name] is truthy: the object has the method.
HasMethod(h, object, name) ==
  object.k = "ref" /\ name \in Methods(h[object.r].class)

\* array[i] (undefined past the end) and array.length.
Element(h, array, i) ==
  IF array.k = "ref" /\ ToString(i) \in Keys
    THEN h[array.r].props[ToString(i)]
    ELSE Undefined

Length(h, array) ==
  CHOOSE n \in 0..(MaxMembers + 1) :
    h[array.r].props["length"] = Str(ToString(n))

\* array.push(value).
push(e, array, value) ==
  LET n == Length(e.heap, array)
  IN Set(Set(e, array, ToString(n), value), array, "length",
         Str(ToString(n + 1)))

\* The array literal of the items.
ArrayOf(items) ==
  Arr([key \in Keys |->
         IF key = "length" THEN Str(ToString(Len(items)))
         ELSE IF \E i \in DOMAIN items : key = ToString(i - 1)
           THEN items[CHOOSE i \in DOMAIN items : key = ToString(i - 1)]
         ELSE Undefined])

RECURSIVE componentAdd(_, _, _)
RECURSIVE addLoop(_, _, _, _)
\* The loop of add over an array: for (var i = 0, obj; obj = object[i]; ++i).
addLoop(e, this, object, i) ==
  LET obj == Element(e.heap, object, i)
  IN IF ~Truthy(obj) THEN e
     ELSE addLoop(componentAdd(e, this, obj), this, object, i + 1)

\* gadash.GaComponent.prototype.add(object).
componentAdd(e, this, object) ==
  IF getTypeOf(e.heap, object) = "array"
    THEN addLoop(e, this, object, 0)
    ELSE push(e, e.heap[this].props["objects_"], object)

\* gadash.getGaComponent(opt_objects): new gadash.GaComponent().add(...).
\* The heap after the call and the component.
getGaComponent(e, opt_objects) ==
  LET objects == Len(e.heap) + 1
      this == Len(e.heap) + 2
      e1 == [e EXCEPT !.heap = @ \o
               << ArrayOf(<<>>),
                  [class |-> "GaComponent",
                   props |-> [NoProps EXCEPT !["objects_"] = Ref(objects)]] >>]
  IN [e |-> componentAdd(e1, this, opt_objects), this |-> this]

\* gadash.GaControl.prototype.getConfig: the value of the control (what
\* settings.getValue reads from the page) is written at the last key.
controlGetConfig(e, this) ==
  LET o == e.heap[this].props
  IN [e |-> Set(e, o["configLastObj"], o["configLastKey"].s, o["value"]),
      ret |-> o["configObj"]]

RECURSIVE componentGetConfig(_, _)
RECURSIVE getConfigLoop(_, _, _, _)
\* The loop of getConfig from objects_[i] on.
getConfigLoop(e, this, cfg, i) ==
  LET object == Element(e.heap, e.heap[this].props["objects_"], i)
  IN IF ~Truthy(object) THEN e
     ELSE IF HasMethod(e.heap, object, "getConfig")
       THEN LET r == IF e.heap[object.r].class = "GaControl"
                       THEN controlGetConfig(e, object.r)
                       ELSE componentGetConfig(e, object.r)
            IN getConfigLoop(utilExtend(r.e, r.ret, cfg), this, cfg,
                             i + 1)
     ELSE getConfigLoop(e, this, cfg, i + 1)

\* gadash.GaComponent.prototype.getConfig.
componentGetConfig(e, this) ==
  LET cfg == Ref(Len(e.heap) + 1)
      e1 == [e EXCEPT !.heap = Append(@, Obj(NoProps))]
  IN [e |-> getConfigLoop(e1, this, cfg, 0), ret |-> cfg]

\* The log gets the call object.fn(cfg) made by the loop of the component
\* by, with the heap at the call.
MemberCall(e, fn, by, object, cfg) ==
  [e EXCEPT !.log = Append(@, [fn |-> fn, by |-> by, object |-> object,
                               config |-> cfg, heap |-> e.heap])]

\* gadash.GaQuery.prototype.setConfig(cfg) called on a member.
querySetConfig(e, this, cfg) ==
  utilExtend(e, cfg, e.heap[this].props["config"])

\* gadash.GaQuery.prototype.execute(opt_config) called on a member, up to
\* its setConfig (what follows is the request or the command queue).
queryExecute(e, this, opt_config) ==
  IF Truthy(opt_config)
    THEN utilExtend(e, opt_config, e.heap[this].props["config"])
    ELSE e

RECURSIVE setConfigLoop(_, _, _, _)
\* The loop of setConfig from objects_[i] on.
setConfigLoop(e, this, cfg, i) ==
  LET object == Element(e.heap, e.heap[this].props["objects_"], i)
  IN IF ~Truthy(object) THEN e
     ELSE IF HasMethod(e.heap, object, "setConfig")
       THEN LET e1 == MemberCall(e, "setConfig", this, object.r, cfg)
            IN setConfigLoop(
                 IF e.heap[object.r].class = "GaQuery"
                   THEN querySetConfig(e1, object.r, cfg)
                   ELSE setConfigLoop(e1, object.r, cfg, 0),
                 this, cfg, i + 1)
     ELSE setConfigLoop(e, this, cfg, i + 1)

\* gadash.GaComponent.prototype.setConfig(cfg).
componentSetConfig(e, this, cfg) == setConfigLoop(e, this, cfg, 0)

RECURSIVE componentExecute(_, _, _)
RECURSIVE executeLoop(_, _, _, _)
\* The loop of execute from objects_[i] on.
executeLoop(e, this, cfg, i) ==
  LET object == Element(e.heap, e.heap[this].props["objects_"], i)
  IN IF ~Truthy(object) THEN e
     ELSE IF HasMethod(e.heap, object, "execute")
       THEN LET e1 == MemberCall(e, "execute", this, object.r, cfg)
            IN executeLoop(
                 IF e.heap[object.r].class = "GaQuery"
                   THEN queryExecute(e1, object.r, cfg)
                   ELSE componentExecute(e1, object.r, cfg),
                 this, cfg, i + 1)
     ELSE executeLoop(e, this, cfg, i + 1)

\* gadash.GaComponent.prototype.execute(opt_config).
componentExecute(e, this, opt_config) ==
  LET r == componentGetConfig(e, this)
      e1 == IF Truthy(opt_config) THEN utilExtend(r.e, opt_config, r.ret)
            ELSE r.e
  IN executeLoop(e1, this, r.ret, 0)

\* The objects of the page: two queries, two text input controls made by
\* getTextInputControl(id, 'query.ids') with what getConfigObjDetails built
\* and getTextInputControl(id, 'query.metrics') with what
\* getConfigObjDetails built for them, and a config object.
ComponentHeap ==
  << Obj(NoProps),
     [class |-> "GaQuery", props |-> [NoProps EXCEPT !["config"] = Ref(1)]],
     Obj(NoProps),
     [class |-> "GaQuery", props |-> [NoProps EXCEPT !["config"] = Ref(3)]],
     Obj([NoProps EXCEPT !["query"] = Ref(6)]),
     Obj([NoProps EXCEPT !["ids"] = Ref(7)]),
     Obj(NoProps),
     [class |-> "GaControl",
      props |-> [NoProps EXCEPT !["configObj"] = Ref(5),
                                !["configLastObj"] = Ref(6),
                                !["configLastKey"] = Str("ids"),
                                !["value"] = Str("ga:1")]],
     Obj([NoProps EXCEPT !["query"] = Ref(10)]),
     Obj([NoProps EXCEPT !["metrics"] = Ref(11)]),
     Obj(NoProps),
     [class |-> "GaControl",
      props |-> [NoProps EXCEPT !["configObj"] = Ref(9),
                                !["configLastObj"] = Ref(10),
                                !["configLastKey"] = Str("metrics"),
                                !["value"] = Str("ga:2")]],
     Obj([NoProps EXCEPT !["query"] = Ref(14), !["elementId"] = Str("div")]),
     Obj([NoProps EXCEPT !["metrics"] = Str("ga:visits")]) >>

\* The queries and controls of the page, its controls, its config object.
Members == {Ref(2), Ref(4), Ref(8), Ref(12)}

Controls == {8, 12}

PageConfig == Ref(13)

\* What the page passes to getGaComponent and add: nothing (items empty),
\* one object, or an array literal of objects.
Single(object) == [array |-> FALSE, items |-> <<object>>]

Nothing == [array |-> FALSE, items |-> <<>>]

AddArgs ==
  {Single(object) : object \in Members}
    \cup {[array |-> TRUE, items |-> <<Ref(8), Ref(2)>>],
          [array |-> TRUE, items |-> <<Ref(2), Ref(12), Ref(4)>>]}

\* The most components the page builds.
MaxComponents == 2

\* What the page passes to add on the component this (0 for a component
\* about to be built): also a component built before, alone or in an array
\* after a control.
AddArgsOn(h, this) ==
  AddArgs
    \cup UNION {{Single(Ref(b)), [array |-> TRUE, items |-> <<Ref(8), Ref(b)>>]} :
                b \in {a \in DOMAIN h : h[a].class = "GaComponent"
                                         /\ (this = 0 \/ a < this)}}

\* The objects given to the component to.
Given(to, items) == [i \in DOMAIN items |-> [to |-> to, object |-> items[i]]]

\* The argument as a value, on the heap that holds its array literal.
Passed(h, arg) ==
  IF arg.array
    THEN [heap |-> Append(h, ArrayOf(arg.items)), value |-> Ref(Len(h) + 1)]
  ELSE [heap |-> h,
        value |-> IF arg.items = <<>> THEN Undefined ELSE arg.items[1]]

\* The components built.
Components(h) == {a \in DOMAIN h : h[a].class = "GaComponent"}

ComponentInit ==
  /\ Fresh /\ config = LoadPage
  /\ today = 0
  /\ heap = ComponentHeap
  /\ call = [fn |-> "", this |-> 0, arg |-> Undefined, added |-> <<>>,
             log |-> <<>>, threw |-> FALSE]

\* The page gives a component no object twice.
NotGiven(this, items) ==
  \A i \in DOMAIN items, j \in DOMAIN call.added :
    ~(call.added[j].to = this /\ call.added[j].object = items[i])

\* The most calls the page makes on its components.
MaxComponentCalls == 4

\* The frame of the page's calls on a component: one more call, with the
\* argument arg, whose log starts empty.
ComponentCall(fn, this, arg, added, e) ==
  /\ calls < MaxComponentCalls
  /\ calls' = calls + 1
  /\ heap' = e.heap
  /\ call' = [fn |-> fn, this |-> this, arg |-> arg, added |-> added,
              log |-> e.log, threw |-> e.threw]
  /\ UNCHANGED <<loadVars, authVars, worldVars, selects, trace, today>>

\* The page calls gadash.getGaComponent(opt_objects).
GetGaComponent(arg) ==
  /\ Cardinality(Components(heap)) < MaxComponents
  /\ arg \in AddArgsOn(heap, 0) \cup {Nothing}
  /\ LET p == Passed(heap, arg)
         r == getGaComponent([heap |-> p.heap, threw |-> FALSE, log |-> <<>>],
                             p.value)
     IN ComponentCall("getGaComponent", r.this, p.value,
                      call.added \o Given(r.this, arg.items), r.e)

\* The page calls add(object) on its component.
Add(this, arg) ==
  /\ this \in Components(heap)
  /\ arg \in AddArgsOn(heap, this)
  /\ NotGiven(this, arg.items)
  /\ Length(heap, heap[this].props["objects_"]) + Len(arg.items) <= MaxMembers
  /\ LET p == Passed(heap, arg)
     IN ComponentCall("add", this, p.value,
                      call.added \o Given(this, arg.items),
                      componentAdd([heap |-> p.heap, threw |-> FALSE,
                                    log |-> <<>>], this, p.value))

\* The page calls setConfig(config) on its component.
ComponentSetConfig(this, cfg) ==
  /\ this \in Components(heap)
  /\ ComponentCall("setConfig", this, cfg, call.added,
                   componentSetConfig([heap |-> heap, threw |-> FALSE,
                                       log |-> <<>>], this, cfg))

\* The page calls execute(opt_config) on its component.
ComponentExecute(this, opt_config) ==
  /\ this \in Components(heap)
  /\ ComponentCall("execute", this, opt_config, call.added,
                   componentExecute([heap |-> heap, threw |-> FALSE,
                                     log |-> <<>>], this, opt_config))

\* The user types into the text input of a control.
Input(control, value) ==
  /\ heap[control].props["value"] # value
  /\ ComponentCall("input", 0, value, call.added,
                   [heap |-> [heap EXCEPT ![control].props["value"] = value],
                    threw |-> FALSE, log |-> <<>>])

ComponentNext ==
  \/ \E arg \in AddArgsOn(heap, 0) \cup {Nothing} : GetGaComponent(arg)
  \/ \E this \in DOMAIN heap : \E arg \in AddArgsOn(heap, this) :
       Add(this, arg)
  \/ \E this \in DOMAIN heap : ComponentSetConfig(this, PageConfig)
  \/ \E this \in DOMAIN heap, opt_config \in {Undefined, PageConfig} :
       ComponentExecute(this, opt_config)
  \/ \E control \in Controls : Input(control, Str("ga:3"))

\* Components: the components built by getGaComponent from the queries and
\* controls of the page and from components built before, and the page's
\* calls on them.
ComponentSpec == ComponentInit /\ [][ComponentNext]_vars

\* ------------------------------------------------------------ dashboard
RECURSIVE dashboardAdd(_, _, _)
RECURSIVE dashboardAddLoop(_, _, _, _)
\* The loop of Dashboard.add over an array.
dashboardAddLoop(e, this, object, i) ==
  LET obj == Element(e.heap, object, i)
  IN IF e.threw \/ ~Truthy(obj) THEN e
     ELSE dashboardAddLoop(dashboardAdd(e, this, obj), this, object, i + 1)

\* gadash.Dashboard.prototype.add(object): reading a property of undefined
\* throws; a control and a query are both pushed to charts_.
dashboardAdd(e, this, object) ==
  IF getTypeOf(e.heap, object) = "array"
    THEN dashboardAddLoop(e, this, object, 0)
  ELSE IF object.k \in {"undefined", "null"}
    THEN [e EXCEPT !.threw = TRUE]
  ELSE IF HasMethod(e.heap, object, "getConfig")
            /\ HasMethod(e.heap, object, "getValue")
    THEN push(e, e.heap[this].props["charts_"], object)
  ELSE IF HasMethod(e.heap, object, "setConfig")
            /\ HasMethod(e.heap, object, "execute")
    THEN push(e, e.heap[this].props["charts_"], object)
  ELSE e

\* gadash.getDashboard(opt_objects): new gadash.Dashboard().add(...).
getDashboard(e, opt_objects) ==
  LET controls == Len(e.heap) + 1
      charts == Len(e.heap) + 2
      this == Len(e.heap) + 3
      e1 == [e EXCEPT !.heap = @ \o
               << ArrayOf(<<>>), ArrayOf(<<>>),
                  [class |-> "Dashboard",
                   props |-> [NoProps EXCEPT !["controls_"] = Ref(controls),
                                             !["charts_"] = Ref(charts)]] >>]
  IN [e |-> dashboardAdd(e1, this, opt_objects), this |-> this]

RECURSIVE dashboardGetConfigLoop(_, _, _, _)
\* The loop of Dashboard.getConfig from controls_[i] on.
dashboardGetConfigLoop(e, this, cfg, i) ==
  LET control == Element(e.heap, e.heap[this].props["controls_"], i)
  IN IF e.threw \/ ~Truthy(control) THEN e
     ELSE IF ~HasMethod(e.heap, control, "getConfig")
       THEN [e EXCEPT !.threw = TRUE]
     ELSE LET r == controlGetConfig(
                     MemberCall(e, "getConfig", this, control.r, Undefined),
                     control.r)
          IN dashboardGetConfigLoop(utilExtend(r.e, r.ret, cfg), this, cfg,
                                    i + 1)

\* gadash.Dashboard.prototype.getConfig.
dashboardGetConfig(e, this) ==
  LET cfg == Ref(Len(e.heap) + 1)
      e1 == [e EXCEPT !.heap = Append(@, Obj(NoProps))]
  IN [e |-> dashboardGetConfigLoop(e1, this, cfg, 0), ret |-> cfg]

RECURSIVE dashboardSetConfig(_, _, _, _)
\* gadash.Dashboard.prototype.setConfig(config), from charts_[i] on:
\* chart.setConfig(config) throws on an object without setConfig.
dashboardSetConfig(e, this, cfg, i) ==
  LET chart == Element(e.heap, e.heap[this].props["charts_"], i)
  IN IF e.threw \/ ~Truthy(chart) THEN e
     ELSE IF ~HasMethod(e.heap, chart, "setConfig")
       THEN [e EXCEPT !.threw = TRUE]
     ELSE dashboardSetConfig(
            querySetConfig(MemberCall(e, "setConfig", this, chart.r, cfg),
                           chart.r, cfg),
            this, cfg, i + 1)

RECURSIVE dashboardExecuteLoop(_, _, _, _)
\* The loop of Dashboard.execute from charts_[i] on: chart.execute(config)
\* throws on an object without execute.
dashboardExecuteLoop(e, this, cfg, i) ==
  LET chart == Element(e.heap, e.heap[this].props["charts_"], i)
  IN IF e.threw \/ ~Truthy(chart) THEN e
     ELSE IF ~HasMethod(e.heap, chart, "execute")
       THEN [e EXCEPT !.threw = TRUE]
     ELSE dashboardExecuteLoop(
            queryExecute(MemberCall(e, "execute", this, chart.r, cfg),
                         chart.r, cfg),
            this, cfg, i + 1)

\* gadash.Dashboard.prototype.execute(opt_config).
dashboardExecute(e, this, opt_config) ==
  LET r == dashboardGetConfig(e, this)
      e1 == IF Truthy(opt_config) THEN utilExtend(r.e, opt_config, r.ret)
            ELSE r.e
  IN dashboardExecuteLoop(e1, this, r.ret, 0)

\* The dashboards built.
Dashboards(h) == {a \in DOMAIN h : h[a].class = "Dashboard"}

\* The page calls gadash.getDashboard(opt_objects).
GetDashboard(arg) ==
  /\ Dashboards(heap) = {}
  /\ LET p == Passed(heap, arg)
         r == getDashboard([heap |-> p.heap, threw |-> FALSE, log |-> <<>>],
                           p.value)
     IN ComponentCall("getDashboard", r.this, p.value,
                      call.added \o Given(r.this, arg.items), r.e)

\* The page calls add(object) on its dashboard.
DashboardAdd(this, arg) ==
  /\ this \in Dashboards(heap)
  /\ NotGiven(this, arg.items)
  /\ Length(heap, heap[this].props["charts_"]) + Len(arg.items) <= MaxMembers
  /\ LET p == Passed(heap, arg)
     IN ComponentCall("add", this, p.value,
                      call.added \o Given(this, arg.items),
                      dashboardAdd([heap |-> p.heap, threw |-> FALSE,
                                    log |-> <<>>], this, p.value))

\* The page calls setConfig(config) on its dashboard.
DashboardSetConfig(this, cfg) ==
  /\ this \in Dashboards(heap)
  /\ ComponentCall("setConfig", this, cfg, call.added,
                   dashboardSetConfig([heap |-> heap, threw |-> FALSE,
                                       log |-> <<>>], this, cfg, 0))

\* The page calls execute(opt_config) on its dashboard.
DashboardExecute(this, opt_config) ==
  /\ this \in Dashboards(heap)
  /\ ComponentCall("execute", this, opt_config, call.added,
                   dashboardExecute([heap |-> heap, threw |-> FALSE,
                                     log |-> <<>>], this, opt_config))

DashboardNext ==
  \/ \E arg \in AddArgs \cup {Nothing} : GetDashboard(arg)
  \/ \E this \in DOMAIN heap, arg \in AddArgs : DashboardAdd(this, arg)
  \/ \E this \in DOMAIN heap : DashboardSetConfig(this, PageConfig)
  \/ \E this \in DOMAIN heap, opt_config \in {Undefined, PageConfig} :
       DashboardExecute(this, opt_config)
  \/ \E control \in Controls : Input(control, Str("ga:3"))

\* Dashboard: a dashboard built by getDashboard from the queries and
\* controls of the page, and the page's calls on it.
DashboardSpec == ComponentInit /\ [][DashboardNext]_vars

\* ------------------------------------------ ProfileSelect: the cascade
\* One gadash.ui.ProfileSelect on one element.  The record s threaded
\* through the calls holds the object (selected, isFromLoad), the rest of
\* the page it reads and writes (gadash.ui.acct.cache[elementId], the item
\* of localStorage under elementId, the options of its three dropdowns, the
\* lines of the element 'errors'), the Management API requests in flight
\* and two histories (issued: requests made; handled: the account and
\* property ids whose list the API has answered with items).  A property
\* of selected that is undefined holds "".

\* The characters of the names, in the order of their code units.
CharCodes == <<"B", "K", "W", "a", "b", "k", "m", "w", "x">>

CodeOf(c) == CHOOSE i \in DOMAIN CharCodes : CharCodes[i] = c

\* String.prototype.toLowerCase on a name of one character.
toLowerCase(c) ==
  CASE c = "B" -> "b" [] c = "K" -> "k" [] c = "W" -> "w" [] OTHER -> c

\* The comparison function of gadash.ui.acct.sortResults: a comes before b.
Before(a, b) == CodeOf(toLowerCase(a.name)) < CodeOf(toLowerCase(b.name))

RECURSIVE sortItems(_)

\* Array.prototype.sort with that function, on items of distinct names.
sortItems(items) ==
  IF Len(items) = 0 THEN <<>>
  ELSE LET least == CHOOSE i \in DOMAIN items :
                      \A j \in DOMAIN items : ~Before(items[j], items[i])
       IN <<items[least]>> \o
          sortItems([k \in 1..(Len(items) - 1) |->
                       IF k < least THEN items[k] ELSE items[k + 1]])

\* gadash.ui.acct.sortResults(results): results.items is sorted in place.
sortResults(results) == [results EXCEPT !.items = sortItems(@)]

\* The keys of this.selected.
SelectedKeys == {"accountId", "propertyId", "profileId"}

\* gadash.util.save: JSON.stringify leaves out the undefined properties.
stringify(selected) ==
  [k \in {x \in SelectedKeys : selected[x] # ""} |-> selected[k]]

\* gadash.util.load: JSON.parse of the item; a property the item does not
\* hold is undefined.
parse(item) ==
  [k \in SelectedKeys |-> IF k \in DOMAIN item THEN item[k] ELSE ""]

\* A list request is handed to the Management API client.
listRequest(s, list) ==
  [s EXCEPT !.issued = @ + 1,
            !.pending = @ \cup
              {[n |-> s.issued + 1, list |-> list,
                accountId |-> IF list = "accounts" THEN ""
                              ELSE s.selected.accountId,
                propertyId |-> IF list = "profiles"
                                 THEN s.selected.propertyId ELSE ""]}]

\* Variant: a list without items is not an error.
isErrorOnlyError(results) == results.error

\* ProfileSelect.prototype.isError: the value returned.
isError(results) == results.error \/ Len(results.items) = 0

\* ProfileSelect.prototype.isError: what it writes.  results.kind of a list
\* response is 'analytics#accounts', 'analytics#webproperties' or
\* 'analytics#profiles', none of which is a case of the switch.
isErrorShown(s, results) ==
  IF results.error THEN [s EXCEPT !.errorsDiv = @ + 1] ELSE s

\* ProfileSelect.prototype.saveToCache.
saveToCache(s, key, data) == [s EXCEPT !.cache = Put(@, key, data)]

\* ProfileSelect.prototype.loadFromCache returns an object.
Cached(s, key) == key \in DOMAIN s.cache

\* The values of the options gadash.ui.acct.getOptionsFromResults builds.
getOptionsFromResults(results) ==
  {results.items[i].id : i \in DOMAIN results.items}

\* Variant: isFromLoad is left as it is.
handleProfilesKeepsFromLoad(s, results) ==
  IF isError(results) THEN isErrorShown(s, results)
  ELSE LET sorted == sortResults(results)
           s1 == saveToCache(s, s.selected.propertyId, sorted)
           s2 == IF ~s1.isFromLoad
                   THEN [s1 EXCEPT !.selected.profileId = sorted.items[1].id]
                   ELSE s1
       IN [s2 EXCEPT !.options.profile = getOptionsFromResults(sorted),
                     !.storage = <<stringify(s2.selected)>>]

\* ProfileSelect.prototype.handleProfiles.  results.items[0].id of a list
\* without items is a TypeError: the handler ends there.
handleProfiles(s, results) ==
  IF isError(results) THEN isErrorShown(s, results)
  ELSE LET sorted == sortResults(results)
           s1 == saveToCache(s, s.selected.propertyId, sorted)
       IN IF ~s1.isFromLoad /\ Len(sorted.items) = 0 THEN s1
          ELSE LET s2 == IF ~s1.isFromLoad
                           THEN [s1 EXCEPT !.selected.profileId =
                                             sorted.items[1].id]
                           ELSE s1
               IN [s2 EXCEPT
                     !.options.profile = getOptionsFromResults(sorted),
                     !.storage = <<stringify(s2.selected)>>,
                     !.isFromLoad = FALSE]

\* ProfileSelect.prototype.loadProfiles.
loadProfiles(s) ==
  IF Cached(s, s.selected.propertyId)
    THEN handleProfiles(s, s.cache[s.selected.propertyId])
    ELSE listRequest(s, "profiles")

\* ProfileSelect.prototype.handleProperties.
handleProperties(s, results) ==
  IF isError(results) THEN isErrorShown(s, results)
  ELSE LET sorted == sortResults(results)
           s1 == saveToCache(s, s.selected.accountId, sorted)
       IN IF ~s1.isFromLoad /\ Len(sorted.items) = 0 THEN s1
          ELSE LET s2 == IF ~s1.isFromLoad
                           THEN [s1 EXCEPT !.selected.propertyId =
                                             sorted.items[1].id]
                           ELSE s1
               IN loadProfiles(
                    [s2 EXCEPT !.options.property =
                                 getOptionsFromResults(sorted)])

\* ProfileSelect.prototype.loadProperties.
loadProperties(s) ==
  IF Cached(s, s.selected.accountId)
    THEN handleProperties(s, s.cache[s.selected.accountId])
    ELSE listRequest(s, "webproperties")

\* ProfileSelect.prototype.handleAccounts: the first account is taken
\* before the items are sorted.
handleAccounts(s, results) ==
  IF isError(results) THEN isErrorShown(s, results)
  ELSE IF ~s.isFromLoad /\ Len(results.items) = 0 THEN s
  ELSE LET s1 == IF ~s.isFromLoad
                   THEN [s EXCEPT !.selected.accountId = results.items[1].id]
                   ELSE s
           sorted == sortResults(results)
       IN loadProperties(
            [s1 EXCEPT !.options.acct = getOptionsFromResults(sorted)])

\* The function ProfileSelect.prototype.getChangeHandler(selectId) returns,
\* evt.target.value being value.
changeHandler(s, selectId, value) ==
  CASE selectId = "acct" ->
         loadProperties([s EXCEPT !.selected.accountId = value])
    [] selectId = "property" ->
         loadProfiles([s EXCEPT !.selected.propertyId = value])
    [] selectId = "profile" ->
         LET s1 == [s EXCEPT !.selected.profileId = value]
         IN [s1 EXCEPT !.storage = <<stringify(s1.selected)>>]

\* ProfileSelect.prototype.initLoad, ending with loadAccounts.
selectInitLoad(s) ==
  LET s1 == IF s.storage # <<>>
              THEN [s EXCEPT !.selected = parse(s.storage[1]),
                             !.isFromLoad = TRUE]
              ELSE s
  IN listRequest([s1 EXCEPT !.started = TRUE], "accounts")

\* An account, a property or a profile of the user.
Item(id, name) == [id |-> id, name |-> name]

\* The accounts, properties and profiles the Management API lists.
AccountItems == <<Item("a1", "B"), Item("a2", "a")>>

PropertyItems ==
  [a \in {"a1", "a2"} |->
     IF a = "a1" THEN <<Item("p1", "x"), Item("p2", "W")>>
     ELSE <<Item("p3", "m"), Item("p4", "K")>>]

ProfileItems ==
  [q \in {"p1", "p2", "p3", "p4"} |->
     CASE q = "p1" -> <<Item("f1", "a")>>
       [] q = "p2" -> <<Item("f2", "x"), Item("f3", "b")>>
       [] q = "p3" -> <<Item("f4", "a"), Item("f5", "m")>>
       [] q = "p4" -> <<Item("f6", "a")>>]

\* The property q is one of the account a.
PropertyOf(a, q) ==
  a \in DOMAIN PropertyItems /\
  \E i \in DOMAIN PropertyItems[a] : PropertyItems[a][i].id = q

\* The API can list what the request r asks for.
CanList(r) ==
  \/ r.list = "accounts"
  \/ r.list = "webproperties" /\ r.accountId \in DOMAIN PropertyItems
  \/ r.list = "profiles" /\ PropertyOf(r.accountId, r.propertyId)

\* The responses of the API: items, an error, no items.
ListKinds == {"items", "error", "empty"}

\* The response of kind kind to the request r.
Answer(r, kind) ==
  [error |-> kind = "error",
   items |-> IF kind # "items" THEN <<>>
             ELSE CASE r.list = "accounts" -> AccountItems
                    [] r.list = "webproperties" -> PropertyItems[r.accountId]
                    [] r.list = "profiles" -> ProfileItems[r.propertyId]]

\* A selection saved by an earlier visit of the page: none of its ids is
\* the first of its list.
Saved == [accountId |-> "a2", propertyId |-> "p3", profileId |-> "f5"]

NoRequest == [n |-> 0, list |-> "", accountId |-> "", propertyId |-> ""]

NoResults == [error |-> FALSE, items |-> <<>>]

\* new gadash.ui.ProfileSelect(elementId) before the libraries have loaded:
\* initLoad is subscribed to libsLoaded.
ProfileSelect(storage) ==
  [selected |-> [k \in SelectedKeys |-> ""], isFromLoad |-> FALSE,
   started |-> FALSE, cache |-> [k \in {} |-> NoResults],
   storage |-> storage, options |-> [acct |-> {}, property |-> {},
                                     profile |-> {}],
   errorsDiv |-> 0, pending |-> {}, issued |-> 0, handled |-> {}]

SelectInit ==
  /\ Fresh /\ config = LoadPage
  /\ today = 0
  /\ heap \in {ProfileSelect(<<>>), ProfileSelect(<<stringify(Saved)>>)}
  /\ call = [fn |-> "ProfileSelect", request |-> NoRequest,
             results |-> NoResults, value |-> ""]

\* The most changes the user makes on the dropdowns.
MaxChanges == 2

\* libsLoaded is published: the bound initLoad runs.
SelectInitLoad ==
  /\ ~heap.started
  /\ heap' = selectInitLoad(heap)
  /\ call' = [fn |-> "initLoad", request |-> NoRequest,
              results |-> NoResults, value |-> ""]
  /\ UNCHANGED <<programVars, today>>

\* The Management API answers the request r: the bound handler of its list.
ListResponse(r, kind) ==
  /\ r \in heap.pending
  /\ kind = "items" => CanList(r)
  /\ LET results == Answer(r, kind)
         s == [heap EXCEPT !.pending = @ \ {r},
                           !.handled = IF kind = "items" /\ r.list # "accounts"
                                         THEN @ \cup {IF r.list = "profiles"
                                                        THEN r.propertyId
                                                        ELSE r.accountId}
                                         ELSE @]
     IN /\ heap' = CASE r.list = "accounts" -> handleAccounts(s, results)
                     [] r.list = "webproperties" ->
                          handleProperties(s, results)
                     [] r.list = "profiles" -> handleProfiles(s, results)
        /\ call' = [fn |-> CASE r.list = "accounts" -> "handleAccounts"
                             [] r.list = "webproperties" -> "handleProperties"
                             [] r.list = "profiles" -> "handleProfiles",
                    request |-> r, results |-> results, value |-> ""]
  /\ UNCHANGED <<programVars, today>>

\* The user picks the option value of a dropdown: its change handler.
Change(selectId, value) ==
  /\ heap.started
  /\ calls < MaxChanges
  /\ value \in heap.options[selectId]
  /\ value # heap.selected[CASE selectId = "acct" -> "accountId"
                             [] selectId = "property" -> "propertyId"
                             [] selectId = "profile" -> "profileId"]
  /\ calls' = calls + 1
  /\ heap' = changeHandler(heap, selectId, value)
  /\ call' = [fn |-> selectId, request |-> NoRequest,
              results |-> NoResults, value |-> value]
  /\ UNCHANGED <<loadVars, authVars, worldVars, selects, trace, today>>

SelectNext ==
  \/ SelectInitLoad
  \/ \E r \in heap.pending, kind \in ListKinds : ListResponse(r, kind)
  \/ \E selectId \in {"acct", "property", "profile"} :
       \E value \in heap.options[selectId] : Change(selectId, value)

\* Select: one ProfileSelect, the responses of the Management API and the
\* changes the user makes on the dropdowns.
SelectSpec == SelectInit /\ [][SelectNext]_vars

\* ------------------------------------------- gviz: the success handler
\* gadash.gviz.onSuccessDefault on a Core Reporting response.  The calls it
\* makes on the page and on google.visualization are kept as a log of
\* names; a cell of the data table holds the raw string of the response
\* and the name of the conversion applied to it.

\* The most rows of a response.
MaxRows == 2

\* A column header of a response.
Header(name, dataType) == [name |-> name, dataType |-> dataType]

\* The column headers of the responses.
ColumnHeaders ==
  {<<Header("ga:date", "STRING")>>,
   <<Header("ga:date", "STRING"), Header("ga:visits", "INTEGER")>>,
   <<Header("ga:source", "STRING"), Header("ga:visits", "INTEGER")>>,
   <<Header("ga:visits", "INTEGER"), Header("ga:revenue", "CURRENCY")>>,
   <<Header("ga:date", "STRING"), Header("ga:bounceRate", "PERCENT")>>}

\* The string the API gives in row i for the column header.
RawValue(header, i) ==
  IF header.name = "ga:date" THEN "2012010" \o ToString(i)
  ELSE IF header.dataType = "STRING" THEN "s" \o ToString(i)
  ELSE ToString(i)

\* Strings of the form YYYYMMDD (datePattern).
DateStrings == {"2012010" \o ToString(i) : i \in 1..9}

\* The date column is kept as a date unless the chart is a column or a bar
\* chart.
IsDateColumn(header, chartType) ==
  header.name = "ga:date" /\ chartType \notin {"ColumnChart", "BarChart"}

\* gadash.gviz.getDataTable: the columns are added for every response; the
\* rows loop runs numOfRows times, and numOfRows is undefined (no
\* iteration) when there are no rows, after displayError has been called.
getDataTable(resp, chartType) ==
  LET columnType(h) ==
        IF IsDateColumn(h, chartType) THEN "date"
        ELSE IF h.dataType = "STRING" THEN "string" ELSE "number"
      conversion(h) ==
        IF IsDateColumn(h, chartType) THEN "stringToDate"
        ELSE IF h.dataType = "INTEGER" THEN "parseInt"
        ELSE IF h.dataType = "CURRENCY" THEN "parseFloat"
        ELSE IF h.dataType \in {"PERCENT", "TIME", "FLOAT"} THEN "round"
        ELSE "none"
      headers == resp.columnHeaders
  IN [log |-> (IF resp.rows # <<>> THEN <<>> ELSE <<"displayError">>)
               \o <<"new DataTable">>,
      data |-> [columns |-> [j \in DOMAIN headers |->
                               [type |-> columnType(headers[j]),
                                name |-> headers[j].name]],
                rows |-> [i \in DOMAIN resp.rows |->
                            [j \in DOMAIN headers |->
                               [as |-> conversion(headers[j]),
                                raw |-> resp.rows[i][j]]]]]]

\* The chart classes of google.visualization the page may name.
ChartClasses == {"LineChart", "ColumnChart", "Table"}

\* gadash.gviz.getChart: the class of the chart instance built.
getChart(chartType) ==
  IF chartType \in ChartClasses THEN chartType ELSE "Table"

\* gadash.util.convertDateFormat: dataTable.getValue(0, 0) is read first;
\* on a table without rows the library either throws or returns null
\* (getValue), as google.visualization decides.
convertDateFormat(dataTable, getValue) ==
  IF dataTable.rows = <<>>
    THEN [log |-> <<"getValue">>, threw |-> getValue = "throws",
          data |-> dataTable]
  ELSE LET first == dataTable.rows[1][1]
       IN IF first.as = "none" /\ first.raw \in DateStrings
            THEN [log |-> <<"getValue", "convertToMMMd">>, threw |-> FALSE,
                  data |-> [dataTable EXCEPT
                              !.rows = [i \in DOMAIN @ |->
                                          [@[i] EXCEPT ![1].as =
                                             "stringDateToString"]]]]
            ELSE [log |-> <<"getValue">>, threw |-> FALSE,
                  data |-> dataTable]

\* gadash.gviz.draw: convertDateFormat, createDateFormater, chart.draw.
draw(dataTable, chartOptions, getValue) ==
  LET c == convertDateFormat(dataTable, getValue)
  IN IF c.threw THEN c
     ELSE [c EXCEPT !.log = @ \o <<"createDateFormater", "chart.draw">>]

\* gadash.gviz.onSuccessDefault(response), cfg being this.config.
onSuccessDefault(resp, cfg, getValue) ==
  LET table == getDataTable(resp, cfg.type)
      chart == getChart(cfg.type)
      drawn == draw(table.data, cfg.chartOptions, getValue)
  IN [log |-> table.log \o <<"new " \o chart>> \o drawn.log,
      threw |-> drawn.threw, chart |-> chart, dataTable |-> drawn.data]

\* The responses of the API: the headers and up to MaxRows rows.
GvizResponses ==
  {[columnHeaders |-> h,
    rows |-> [i \in 1..n |-> [j \in DOMAIN h |-> RawValue(h[j], i)]]] :
     h \in ColumnHeaders, n \in 0..MaxRows}

\* The configs of the charts: the type the page names, or none.
GvizConfigs ==
  {[type |-> t, chartOptions |-> "options"] :
     t \in {"LineChart", "ColumnChart", "undefined"}}

NoTable == [columns |-> <<>>, rows |-> <<>>]

\* A response has arrived for a chart of the page.
GvizInit ==
  /\ Fresh /\ config = LoadPage
  /\ today = 0
  /\ heap = <<>>
  /\ \E resp \in GvizResponses, cfg \in GvizConfigs,
        getValue \in {"throws", "null"} :
       call = [fn |-> "response", resp |-> resp, cfg |-> cfg,
               getValue |-> getValue, log |-> <<>>, threw |-> FALSE,
               chart |-> "", dataTable |-> NoTable]

\* The success handlers run: gadash.gviz.onSuccessDefault.
OnSuccess ==
  /\ call.fn = "response"
  /\ LET r == onSuccessDefault(call.resp, call.cfg, call.getValue)
     IN call' = [call EXCEPT !.fn = "onSuccessDefault", !.log = r.log,
                             !.threw = r.threw, !.chart = r.chart,
                             !.dataTable = r.dataTable]
  /\ UNCHANGED <<programVars, today, heap>>

GvizSpec == GvizInit /\ [][OnSuccess]_vars

\* ----------------------------------------------------- reading the log
\* The log s has an entry of kind t.
Has(s, t) == \E i \in DOMAIN s : s[i].t = t

\* The queries of the "command" entries of the log, in order.
CommandsRun(s) ==
  LET c == SelectSeq(s, LAMBDA e : e.t = "command")
  IN [i \in DOMAIN c |-> c[i].q]

\* The entries of executeHandlers_ runs on query q: the run itself, the user
\* function and the default function.
HandlerLog(s, q) ==
  SelectSeq(s, LAMBDA e : e.q = q /\ e.t \in {"handlers", "user", "default"})

\* Entry i of s, or Blank past its end.
At(s, i) == IF i \in DOMAIN s THEN s[i] ELSE Blank

\* The number of entries of s of kind t on query q.
Count(s, t, q) == Cardinality({i \in DOMAIN s : s[i].t = t /\ s[i].q = q})

\* The last action delivered an API response to a query's callback.
Delivered == Len(trace) > 0 /\ trace[1].t = "response"

\* -------------------------------------------------------------- claims

\* C1: when the libraries-loaded event is published, the queued commands
\* run in exactly the order in which the execute() calls that queued them
\* were made, across all query instances.
C1_QueueRunsInCallOrder ==
  Has(trace, "publish") => CommandsRun(trace) = callOrder

C1_Witness ==
  /\ Has(trace, "publish")
  /\ Len(callOrder) >= 2
  /\ callOrder[1] # callOrder[2]
  /\ CommandsRun(trace) = callOrder

\* C2 (as claimed): no queued command is ever run a second time, whatever
\* authorization results and user-info responses follow the first run of
\* the queue.
C2_NoSecondRun == \A i \in DOMAIN queueRuns : queueRuns[i] <= 1

\* C3: every request to the Analytics APIs (Core Reporting or Management)
\* is issued at a moment where gadash.isLoaded is true.
C3_RequestsOnlyWhenLoaded ==
  \A i \in DOMAIN trace : trace[i].t = "request" => trace[i].ret = "loaded"

C3_Witness ==
  /\ Has(trace, "command")
  /\ \E i \in DOMAIN trace :
       trace[i].t = "request" /\ trace[i].fn = "data.ga.get"
  /\ \E i \in DOMAIN trace :
       trace[i].t = "request" /\ trace[i].fn = "management.accounts.list"

\* C4: once an authorization result has been truthy (both scripts having
\* loaded), and given that gapi.client.load and the user-info request call
\* back, eventually isLoaded is true and every queued command has been run.
C4_LoadedAndQueueRun ==
  (apiLoadPending > 0) ~>
    (isLoaded /\ \A i \in DOMAIN queueRuns : queueRuns[i] >= 1)

C4_Witness ==
  /\ isLoaded
  /\ Len(commandQueue_) >= 2
  /\ \A i \in DOMAIN queueRuns : queueRuns[i] >= 1

\* C5: in every run of executeHandlers_ for an event: when the config holds
\* a user function it is called first with the event argument and the
\* default function is called next, with the same argument, exactly when
\* the user function returned something other than false (and a default is
\* set); when no user function is set the default function alone is called.
C5_HandlerResolution ==
  \A q \in Queries :
    LET h == HandlerLog(trace, q)
    IN \A i \in DOMAIN h :
         LET e == h[i]
             userFunc == config[q][e.ev]
             defaultFunc == config[q][DefaultOf(e.ev)]
             hasDefault == defaultFunc # "undefined"
             IsUser(x) == x.t = "user" /\ x.ev = e.ev /\ x.arg = e.arg
             IsDefault(x) ==
               /\ x.t = "default" /\ x.ev = e.ev
               /\ x.arg = e.arg /\ x.fn = defaultFunc
             Ends(x) == x.t \notin {"user", "default"}
         IN /\ e.t = "handlers" /\ userFunc = "userFn" =>
                 /\ IsUser(At(h, i + 1))
                 /\ IF At(h, i + 1).ret # "false" /\ hasDefault
                      THEN IsDefault(At(h, i + 2)) /\ Ends(At(h, i + 3))
                      ELSE Ends(At(h, i + 2))
            /\ e.t = "handlers" /\ userFunc # "userFn" =>
                 IF hasDefault
                   THEN IsDefault(At(h, i + 1)) /\ Ends(At(h, i + 2))
                   ELSE Ends(At(h, i + 1))
            /\ e.t # "handlers" => i > 1

C5_Witness ==
  \E i \in DOMAIN trace :
    /\ trace[i].t = "user" /\ trace[i].ev = "onError"
    /\ trace[i].ret = "undefined"
    /\ At(trace, i + 1).t = "default" /\ At(trace, i + 1).ev = "onError"
    /\ At(trace, i + 1).arg = "response.error"

\* C6: for each response delivered to a query's callback the onResponse
\* pair runs first and then exactly one of the onError pair (response.error
\* present) and the onSuccess pair (otherwise), never both.
C6_ResponseThenOneOutcome ==
  Delivered =>
    LET q == trace[1].q
        runs == SelectSeq(trace, LAMBDA e : e.t = "handlers")
        outcome == IF trace[1].arg = "error" THEN "onError" ELSE "onSuccess"
        other == IF trace[1].arg = "error" THEN "onSuccess" ELSE "onError"
    IN /\ Len(runs) = 2
       /\ runs[1].q = q /\ runs[1].ev = "onResponse"
       /\ runs[2].q = q /\ runs[2].ev = outcome
       /\ \A i \in DOMAIN trace : trace[i].ev # other
       /\ \A i, j \in DOMAIN trace :
            trace[i].ev = "onResponse" /\ trace[j].ev = outcome => i < j

C6_Witness ==
  /\ Delivered
  /\ trace[1].arg = "ok"
  /\ \E i \in DOMAIN trace : trace[i].t = "user" /\ trace[i].ev = "onResponse"
  /\ \E i \in DOMAIN trace : trace[i].t = "user" /\ trace[i].ev = "onSuccess"

\* The error of the response handled by the last action was surfaced: the
\* user's onError handler was called or gadash.onErrorDefault appended text
\* to the element 'errors'.
Surfaced ==
  \/ \E i \in DOMAIN trace : trace[i].t = "user" /\ trace[i].ev = "onError"
  \/ \E i \in DOMAIN trace : trace[i].t = "append" /\ trace[i].fn = "errors"

\* C7 (as claimed): every response that carries an error is surfaced, for
\* every query object, a query constructed directly included.
C7_EveryErrorSurfaced ==
  Delivered /\ trace[1].arg = "error" => Surfaced

\* C7 (amended): every response that carries an error is surfaced for every
\* query whose config holds gadash.onErrorDefault as onErrorDefault, as the
\* queries built by getCoreQuery and by the chart builders do.
C7_ErrorSurfacedWithDefault ==
  /\ Delivered /\ trace[1].arg = "error"
  /\ config[trace[1].q]["onErrorDefault"] = "gadash.onErrorDefault"
  => Surfaced

C7_Witness ==
  /\ Delivered /\ trace[1].arg = "error"
  /\ config[trace[1].q]["onErrorDefault"] = "gadash.onErrorDefault"
  /\ config[trace[1].q]["onError"] = "undefined"
  /\ \E i \in DOMAIN trace : trace[i].t = "append" /\ trace[i].fn = "errors"

\* C8: in every action each run of executeFunction_ on a query issues at
\* most one Core Reporting request, and the handling of a response, success
\* or error, issues none.
C8_OneRequestNoRetry ==
  /\ \A q \in Queries :
       Count(trace, "request", q) <= Count(trace, "executeFunction_", q)
  /\ Delivered => ~Has(trace, "request")

C8_Witness ==
  /\ Delivered /\ trace[1].arg = "error"
  /\ Has(trace, "append")
  /\ ~Has(trace, "request")
  /\ requests[trace[1].q] = 0

\* C9 (as claimed): window.gadashInit_ runs on the call of the counting
\* callback that reaches the count of NumberOfScripts, not before, and
\* never before both scripts have signalled.
C9_InitAfterBothScripts ==
  \A i \in DOMAIN trace :
    /\ trace[i].t = "gadashInit_" =>
         trace[i].n >= NumberOfScripts /\ trace[i].arg = "both"
    /\ trace[i].t = "signal" /\ trace[i].n = NumberOfScripts =>
         At(trace, i + 1).t = "gadashInit_"

\* C10: an execute() call made while gadash.isLoaded is true, or from
\* inside a queued command while the queue is run, runs executeFunction_
\* (the request handlers) at once within the call, and the action leaves the
\* command queue unchanged.
C10_LoadedExecuteRunsAtOnce ==
  [][\A i \in DOMAIN trace' :
       /\ trace'[i].t = "execute"
       /\ \/ trace'[i].ret = "loaded"
          \/ \E j \in 1..(i - 1) : trace'[j].t = "command"
       => /\ At(trace', i + 1).t = "executeFunction_"
          /\ At(trace', i + 1).q = trace'[i].q
          /\ At(trace', i + 2).t = "handlers"
          /\ At(trace', i + 2).ev = "onRequest"
          /\ commandQueue_' = commandQueue_]_vars

C10_Witness ==
  \E i \in DOMAIN trace :
    /\ trace[i].t = "execute" /\ trace[i].ret = "loaded"
    /\ \E j \in 1..(i - 1) : trace[j].t = "command"
    /\ At(trace, i + 1).t = "executeFunction_"
    /\ Len(commandQueue_) >= 1

\* Days since 0000-12-31 of a date, counted month by month.
RECURSIVE DaysBefore(_, _)
DaysBefore(year, month) ==
  IF month = 1
    THEN (year - 1) * 365 + (year - 1) \div 4 - (year - 1) \div 100
           + (year - 1) \div 400
    ELSE DaysBefore(year, month - 1) + DaysIn(year, month - 1)

DayNumber(date) == DaysBefore(date.year, date.month) + date.day

\* The date n days before the date d.
DaysAgo(d, n) == CHOOSE x \in Dates : DayNumber(x) = DayNumber(d) - n

Digits2(n) == ToString(n \div 10) \o ToString(n % 10)

\* The date in the format yyyy-MM-dd.
Iso(date) ==
  ToString(date.year) \o "-" \o Digits2(date.month) \o "-" \o Digits2(date.day)

Requested == call.fn = "getCoreQueryObj"

\* C11: when config.query has neither a start date nor an end date and
\* lastNdays is not set, the request has end-date today and start-date the
\* day 28 days before today.
C11_DefaultLast28Days ==
  /\ Requested
  /\ call.query.startDate = "" /\ call.query.endDate = ""
  /\ call.query.lastNdays = 0
  => /\ call.actualQuery["end-date"] = Iso(call.now)
     /\ call.actualQuery["start-date"] = Iso(DaysAgo(call.now, 28))

C11_Witness ==
  /\ Requested
  /\ call.query.startDate = "" /\ call.query.endDate = ""
  /\ call.query.lastNdays = 0
  /\ call.now = [year |-> 2012, month |-> 3, day |-> 5]
  /\ call.actualQuery["start-date"] = "2012-02-06"
  /\ call.actualQuery["end-date"] = "2012-03-05"

\* The position of the k-th separator sep of the list str.
SeparatorAt(str, sep, k) ==
  CHOOSE j \in DOMAIN str :
    /\ str[j] = sep
    /\ Cardinality({i \in 1..j : str[i] = sep}) = k

\* The items of the list str between its separators sep, in order.
Items(str, sep) ==
  LET n == Cardinality({i \in DOMAIN str : str[i] = sep})
  IN [k \in 1..(n + 1) |->
        SubSeq(str,
               IF k = 1 THEN 1 ELSE SeparatorAt(str, sep, k - 1) + 1,
               IF k = n + 1 THEN Len(str) ELSE SeparatorAt(str, sep, k) - 1)]

\* C16: metrics, dimensions and sort given as space-separated lists are
\* sent as comma-separated lists of the same items in the same order.
C16_SpaceListsSentWithCommas ==
  Requested =>
    \A key \in {"metrics", "dimensions", "sort"} :
      call.query[key] # <<>> =>
        /\ key \in DOMAIN call.actualQuery
        /\ \A i \in DOMAIN call.actualQuery[key] :
             call.actualQuery[key][i] # " "
        /\ Items(call.actualQuery[key], ",") = Items(call.query[key], " ")

C16_Witness ==
  /\ Requested
  /\ call.query.sort = <<"-", "a", " ", "b", " ", "c">>
  /\ call.actualQuery["sort"] = <<"-", "a", ",", "b", ",", "c">>
  /\ call.actualQuery["metrics"] = <<"-", "a", ",", "b", ",", "c">>

RECURSIVE Tree(_, _, _)
\* What the value holds, as the set of <<path, content>> of every path of
\* keys from it: the class of an object, the kind and text of a string or
\* null.
Tree(h, value, path) ==
  IF value.k = "ref"
    THEN {<<path, h[value.r].class>>} \cup
         UNION {Tree(h, h[value.r].props[key], Append(path, key)) :
                  key \in Keys}
  ELSE IF value.k = "undefined" THEN {}
  ELSE {<<path, value.k \o ":" \o value.s>>}

\* The paths of the value that hold a string.
StringsOf(h, value) ==
  {x \in Tree(h, value, <<>>) :
     x[2] \notin {"object", "array", "GaQuery", "null:"}}

\* The config of the query instance this, as a tree.
ConfigTree(h, this) == Tree(h, h[this].props["config"], <<>>)

\* C12 (as claimed): after extend(from, to), every path that holds a
\* string or a number in from holds the same value in to, whatever to held
\* at that path or at a prefix of it before.
C12_LastWriterWins ==
  call.fn = "extend" =>
    StringsOf(call.pre, Ref(call.src)) \subseteq StringsOf(heap, Ref(call.dst))

\* The object extend wrote into at the last call: the object to of extend,
\* the config of the query of setConfig.
Target ==
  IF call.fn = "setConfig" THEN call.pre[call.dst].props["config"].r
  ELSE call.dst

\* C13: extend copies only the values that are neither null nor undefined:
\* for a key whose value in from is null or undefined, to[key] is what it
\* was before the call.
C13_NullNeverCopied ==
  call.fn \in {"extend", "setConfig"} =>
    \A key \in Keys :
      call.pre[call.src].props[key].k \in {"null", "undefined"} =>
        heap[Target].props[key] = call.pre[Target].props[key]

\* extend({'a': {'c': 1}, 'c': null}, {'a': {'b': 2}, 'c': 1}): c stays 1
\* and a.c is copied.
C13_Witness ==
  /\ call.fn = "extend" /\ ~call.threw
  /\ call.pre[call.src].props["c"] = Null
  /\ call.pre[call.dst].props["c"] = Str("1")
  /\ heap[call.dst].props["c"] = Str("1")
  /\ <<(<<"a", "c">>), "string:1">> \in Tree(heap, Ref(call.dst), <<>>)
  /\ <<(<<"a", "b">>), "string:2">> \in Tree(heap, Ref(call.dst), <<>>)

\* C14 (as claimed): a query takes its config by value: when the page
\* modifies an object it holds (the original config or a value nested in
\* it), the config of every query is what it was.
C14_ConfigIsDeepCopy ==
  call.fn = "modify" =>
    \A this \in Instances(heap) :
      ConfigTree(heap, this) = ConfigTree(call.pre, this)

\* C15 (as claimed): each query owns its config: building a query or
\* calling setConfig on one leaves the config of every other query what it
\* was.
C15_ConfigsAreIndependent ==
  call.fn \in {"GaQuery", "setConfig"} =>
    \A other \in Instances(call.pre) \ {call.dst} :
      ConfigTree(heap, other) = ConfigTree(call.pre, other)

Built == call.fn \in ChartBuilders

\* The position of the first object among the arguments, one past the last
\* argument when there is none.
FirstObject(args) ==
  LET objects == {i \in DOMAIN args : args[i].k = "ref"}
  IN IF objects = {} THEN Len(args) + 1
     ELSE CHOOSE i \in objects : \A j \in objects : i <= j

\* Where the positional arguments of a builder go in the config.
Positions(builder) ==
  IF builder = "getCorePieChart"
    THEN << <<"elementId">>, <<"query", "metrics">>,
            <<"query", "dimensions">>, <<"query", "ids">> >>
    ELSE << <<"elementId">>, <<"query", "metrics">>, <<"query", "ids">> >>

PathsOf(tree) == {x[1] : x \in tree}

\* What the user config among the arguments holds (nothing without one).
UserStrings(args) ==
  IF FirstObject(args) > Len(args) THEN {}
  ELSE StringsOf(ChartHeap, args[FirstObject(args)])

\* What the defaults of the builder hold.
DefaultStrings(builder) ==
  StringsOf(ChartHeap, Ref(gviz.coreChartConfig))
    \cup StringsOf(ChartHeap, Ref(gviz.defaultGvizChartOptions))
    \cup StringsOf(ChartHeap, Ref(ChartDefaults(builder)))

UserCalls(ev) ==
  {i \in DOMAIN trace : trace[i].t = "user" /\ trace[i].ev = ev}

DefaultCalls(ev) ==
  {i \in DOMAIN trace : trace[i].t = "default" /\ trace[i].ev = ev}

\* The handlers of ev were called as the claim says: the user's handler
\* (when it is a function) right at the start, the default right after it
\* exactly when it did not return false; the default alone without a
\* user's handler.
OverridesDefault(ev) ==
  IF getType(authConfig[ev]) = "function"
    THEN /\ UserCalls(ev) = {2}
         /\ DefaultCalls(ev) = IF trace[2].ret # "false" THEN {3} ELSE {}
    ELSE /\ UserCalls(ev) = {}
         /\ DefaultCalls(ev) = {2}

\* C18: the handlers passed to gadash.init override the defaults: on a
\* falsy authorization result onUnAuthorized is called and
\* onUnAuthorizedDefault runs afterwards exactly when it did not return
\* false; on a user-info response the same holds of onAuthorized and
\* onAuthorizedDefault; without a user's handler the default alone runs.
C18_AuthHandlersOverride ==
  /\ (trace # <<>> /\ trace[1].t = "handleAuthResult_"
        /\ trace[1].arg = "falsy") => OverridesDefault("onUnAuthorized")
  /\ (trace # <<>> /\ trace[1].t = "loadUserNameHander_")
       => OverridesDefault("onAuthorized")

\* The user's onUnAuthorized returned false and the default did not run.
C18_Witness ==
  /\ Len(trace) = 2
  /\ trace[1].t = "handleAuthResult_" /\ trace[1].arg = "falsy"
  /\ trace[2].t = "user" /\ trace[2].ev = "onUnAuthorized"
  /\ trace[2].ret = "false"
  /\ ~authButton

\* The objects the page gave to the component this, in the order it gave
\* them, and those of them that have the method.
GivenTo(this) ==
  LET Test(x) == x.to = this
      entries == SelectSeq(call.added, Test)
  IN [i \in DOMAIN entries |-> entries[i].object]

AddedWith(name) ==
  LET Test(object) == HasMethod(heap, object, name)
  IN SelectSeq(GivenTo(call.this), Test)

\* The objects on which the component of the page's last call called the
\* method during that call, in the order of the calls.
CalledOn(name) ==
  LET Test(x) == x.fn = name /\ x.by = call.this
      entries == SelectSeq(call.log, Test)
  IN [i \in DOMAIN entries |-> Ref(entries[i].object)]

\* t overlaid by u: the values of u, and those of t at the paths u lacks.
Overlay(t, u) == u \cup {x \in t : x[1] \notin PathsOf(u)}

RECURSIVE MergedConfig(_, _)
\* The merge of what getConfig returns for the first n objects given to the
\* component this, the later ones winning: the value of a text input
\* control under its key, the merge of the objects given to a component,
\* nothing for a query.
MergedConfig(this, n) ==
  IF n = 0 THEN {}
  ELSE LET object == GivenTo(this)[n]
           given ==
             IF ~HasMethod(heap, object, "getConfig") THEN {}
             ELSE IF heap[object.r].class = "GaControl"
               THEN {<< <<"query", heap[object.r].props["configLastKey"].s>>,
                        "string:" \o heap[object.r].props["value"].s >>}
             ELSE MergedConfig(object.r, Len(GivenTo(object.r)))
       IN Overlay(MergedConfig(this, n - 1), given)

\* C19 (as claimed): execute(opt_config) of a component calls execute on
\* each object given to it that has an execute method, with a config that
\* is the merge of what getConfig returns for the objects given, in the
\* order given, with opt_config merged last.
C19_ExecutePassesMergedConfig ==
  call.fn = "execute" =>
    /\ \A i \in DOMAIN AddedWith("execute") :
         \E j \in DOMAIN call.log :
           /\ call.log[j].fn = "execute" /\ call.log[j].by = call.this
           /\ call.log[j].object = AddedWith("execute")[i].r
    /\ \A j \in DOMAIN call.log :
         (call.log[j].fn = "execute" /\ call.log[j].by = call.this) =>
           StringsOf(call.log[j].heap, call.log[j].config)
             = Overlay(MergedConfig(call.this, Len(GivenTo(call.this))),
                       StringsOf(heap, call.arg))

\* C20 (as claimed): whatever getGaComponent and add were given, execute()
\* calls execute exactly once on every object given that has an execute
\* method, in the order given, and setConfig(config) calls setConfig on
\* every object given that has a setConfig method.
C20_EveryAddedObjectIsCalled ==
  /\ call.fn = "execute" => CalledOn("execute") = AddedWith("execute")
  /\ call.fn = "setConfig" =>
       {AddedWith("setConfig")[i] : i \in DOMAIN AddedWith("setConfig")}
         \subseteq {CalledOn("setConfig")[i] :
                      i \in DOMAIN CalledOn("setConfig")}

\* The objects of the class given to the component this.
GivenOf(this, class) ==
  {GivenTo(this)[i].r : i \in {j \in DOMAIN GivenTo(this) :
      GivenTo(this)[j].k = "ref" /\ heap[GivenTo(this)[j].r].class = class}}

\* C21 (as claimed): when the component B has been added to the component
\* A, one call of A.execute(opt_config) executes every query of B exactly
\* once, with a config that holds the current values of the controls of A
\* and of B and the values of opt_config.
C21_NestedComponentExecutes ==
  call.fn = "execute" =>
    \A b \in GivenOf(call.this, "GaComponent") :
      \A q \in GivenOf(b, "GaQuery") :
        LET made == {j \in DOMAIN call.log :
                       /\ call.log[j].fn = "execute"
                       /\ call.log[j].by = b
                       /\ call.log[j].object = q}
        IN /\ Cardinality(made) = 1
           /\ \A j \in made :
                Overlay(Overlay(MergedConfig(b, Len(GivenTo(b))),
                                MergedConfig(call.this,
                                             Len(GivenTo(call.this)))),
                        StringsOf(heap, call.arg))
                  \subseteq StringsOf(call.log[j].heap, call.log[j].config)

\* C22 (as claimed): Dashboard.execute(opt_config) reads the current value
\* of every control added, overrides them with opt_config, and calls
\* execute with that config on each chart added, and only on charts.
C22_DashboardExecutes ==
  call.fn = "execute" =>
    /\ ~call.threw
    /\ \A c \in GivenOf(call.this, "GaControl") :
         \E j \in DOMAIN call.log :
           call.log[j].fn = "getConfig" /\ call.log[j].object = c
    /\ CalledOn("execute") = AddedWith("execute")
    /\ \A j \in DOMAIN call.log :
         call.log[j].fn = "execute" =>
           StringsOf(call.log[j].heap, call.log[j].config)
             = Overlay(MergedConfig(call.this, Len(GivenTo(call.this))),
                       StringsOf(heap, call.arg))

\* C23: when lastNdays is not set and the page gave a start date or an end
\* date, every date the page gave is the one sent: no date of the page is
\* replaced by a default.
C23_SuppliedDatesAreSent ==
  /\ Requested
  /\ call.query.lastNdays = 0
  /\ call.query.startDate # "" \/ call.query.endDate # ""
  => /\ call.query.startDate # "" =>
          call.actualQuery["start-date"] = call.query.startDate
     /\ call.query.endDate # "" =>
          call.actualQuery["end-date"] = call.query.endDate

\* C24: when lastNdays is set, the request has end-date today and
\* start-date the day lastNdays days before today, whatever startDate and
\* endDate are.
C24_LastNdaysComesFirst ==
  Requested /\ call.query.lastNdays # 0
  => /\ call.actualQuery["end-date"] = Iso(call.now)
     /\ call.actualQuery["start-date"] =
          Iso(DaysAgo(call.now, call.query.lastNdays))

C24_Witness ==
  /\ Requested
  /\ call.query.lastNdays = 31
  /\ call.query.startDate = "2012-01-01" /\ call.query.endDate = "2012-02-01"
  /\ call.now = [year |-> 2012, month |-> 3, day |-> 5]
  /\ call.actualQuery["start-date"] = "2012-02-03"
  /\ call.actualQuery["end-date"] = "2012-03-05"

\* The names of the parameters of a request to the Core Reporting API.
RequestNames ==
  {"ids", "metrics", "dimensions", "filters", "segment", "sort",
   "start-index", "max-results", "start-date", "end-date"}

\* C25: the request holds only the parameters of the Core Reporting API:
\* no other key of config.query is in it, startIndex and maxResults are in
\* it under their hyphenated names only, and start-date and end-date are
\* both in it.
C25_OnlyRequestNames ==
  Requested
  => /\ DOMAIN call.actualQuery \subseteq RequestNames
     /\ {"start-date", "end-date"} \subseteq DOMAIN call.actualQuery
     /\ call.query.startIndex # 0 =>
          /\ "start-index" \in DOMAIN call.actualQuery
          /\ call.actualQuery["start-index"] = call.query.startIndex
     /\ call.query.maxResults # 0 =>
          /\ "max-results" \in DOMAIN call.actualQuery
          /\ call.actualQuery["max-results"] = call.query.maxResults

C25_Witness ==
  /\ Requested
  /\ call.query.output = "json"
  /\ call.query.startIndex = 1 /\ call.query.maxResults = 5
  /\ call.query.lastNdays = 0
  /\ call.query.startDate = "2012-01-01" /\ call.query.endDate = "2012-02-01"
  /\ DOMAIN call.actualQuery = RequestNames

\* No authorization result has been truthy so far: handleAuthResult_ is the
\* only caller of gapi.client.load, whose callback is the only code that
\* requests the user info, whose callback is the only code that sets
\* isLoaded, and isLoaded is never reset (the first three conjuncts of C26
\* state exactly this chain).
NoTruthyResultYet == apiLoadPending = 0 /\ userInfoPending = 0 /\ ~isLoaded

\* The log of the step shows a run of the function fn.
Ran(fn) == trace' # <<>> /\ trace'[1].t = fn

C28_ListedOnceThenCached ==
  [][\A r \in heap'.pending \ heap.pending :
       /\ r.list = "webproperties" => r.accountId \notin heap.handled
       /\ r.list = "profiles" => r.propertyId \notin heap.handled]_vars

\* The ids of a list, sorted by name as the dropdown shows them, computed
\* from the names alone.
FirstOf(items) ==
  LET i == CHOOSE x \in DOMAIN items :
             \A y \in DOMAIN items :
               CodeOf(toLowerCase(items[x].name))
                 <= CodeOf(toLowerCase(items[y].name))
  IN items[i].id

\* The step handles a response with items.
Handles(fn) ==
  call'.fn = fn /\ ~call'.results.error /\ call'.results.items # <<>>

\* The step handles the only request in flight, made for the selection as
\* it is now.
InStep ==
  /\ heap.pending = {call'.request}
  /\ call'.request.list # "accounts" =>
       call'.request.accountId = heap.selected.accountId
  /\ call'.request.list = "profiles" =>
       call'.request.propertyId = heap.selected.propertyId

C30_ErrorStopsCascade ==
  [][/\ call'.fn \in {"handleAccounts", "handleProperties", "handleProfiles"}
     /\ call'.results.error \/ call'.results.items = <<>>
     => /\ heap'.pending = heap.pending \ {call'.request}
        /\ heap'.issued = heap.issued
        /\ heap'.cache = heap.cache
        /\ heap'.storage = heap.storage
        /\ heap'.selected = heap.selected
        /\ heap'.isFromLoad = heap.isFromLoad
    ]_vars

\* A properties list without items has been handled after the accounts:
\* the first account is selected, nothing is cached or saved and no request
\* is in flight.
C30_Witness ==
  /\ call.fn = "handleProperties"
  /\ ~call.results.error /\ call.results.items = <<>>
  /\ heap.selected.accountId = "a1" /\ heap.selected.propertyId = ""
  /\ heap.pending = {}
  /\ DOMAIN heap.cache = {}
  /\ heap.storage = <<>>

\* The list the API holds under the id k: the properties of the account k
\* or the profiles of the property k.
ListOf(k) ==
  IF k \in DOMAIN PropertyItems THEN PropertyItems[k]
  ELSE IF k \in DOMAIN ProfileItems THEN ProfileItems[k]
  ELSE <<>>

\* C33: in every state each entry of the cache of the element holds, under
\* the id k, the items of the list of k: the properties of the account k or
\* the profiles of the property k.
C33_CacheHoldsListOfKey ==
  \A k \in DOMAIN heap.cache :
    getOptionsFromResults(heap.cache[k]) =
      {ListOf(k)[i].id : i \in DOMAIN ListOf(k)}

\* The profile f is one of the property q.
ProfileOf(q, f) ==
  q \in DOMAIN ProfileItems /\
  \E i \in DOMAIN ProfileItems[q] : ProfileItems[q][i].id = f

\* C34: when a profiles response with items has been handled and no request
\* is in flight, the selected property is one of the selected account and
\* the selected profile is one of the selected property.
C34_SelectionIsConsistent ==
  /\ call.fn = "handleProfiles"
  /\ ~call.results.error /\ call.results.items # <<>>
  /\ heap.pending = {}
  => /\ PropertyOf(heap.selected.accountId, heap.selected.propertyId)
     /\ ProfileOf(heap.selected.propertyId, heap.selected.profileId)

\* C32: the function getIncrementalCallback returns calls finalCallback at
\* most once: window.gadashInit_ runs on the call that brings the count to
\* NumberOfScripts and on no later call of the same function.
C32_FinalCallbackAtMostOnce ==
  \A i \in DOMAIN trace :
    trace[i].t = "gadashInit_" => trace[i].n <= NumberOfScripts

\* The step is a call the page makes with the config object cfg.
CalledWith(cfg) ==
  /\ trace' # <<>>
  /\ trace'[1].t \in {"execute", "setConfig"}
  /\ trace'[1].arg = actualQuery(cfg)

\* C35: every request issued while the queue is run carries the parameters
\* of the query's config as it is when the queue is run; a setConfig or an
\* execute(opt_config) made before the libraries have loaded writes its
\* parameters to that config and leaves the commands already queued as they
\* are, so the request of an earlier execute() carries them.
C35_QueuedRequestUsesConfigAtDrain ==
  [][/\ Ran("loadUserNameHander_") =>
          \A i \in DOMAIN trace' :
            trace'[i].t = "request" =>
              trace'[i].arg = actualQuery(config[trace'[i].q])
     /\ \A cfg \in QueryConfigs :
          ~isLoaded /\ CalledWith(cfg) =>
            /\ \A k \in DOMAIN cfg : config'[trace'[1].q][k] = cfg[k]
            /\ \A k \in QueryKeys \ DOMAIN cfg :
                 config'[trace'[1].q][k] = config[trace'[1].q][k]
            /\ SubSeq(commandQueue_', 1, Len(commandQueue_)) = commandQueue_
            /\ \A i \in DOMAIN trace' : trace'[i].t # "request"
    ]_vars

\* The page has made two calls, execute with one parameter and execute
\* with the other, each config object setting one parameter only; the queue
\* has been run and the request of the first command carries both.
C35_Witness ==
  /\ trace # <<>> /\ trace[1].t = "loadUserNameHander_"
  /\ calls = 2
  /\ commandQueue_ = <<1, 1>>
  /\ \E i, j, k \in DOMAIN trace :
       /\ i < j /\ j < k
       /\ trace[i].t = "command" /\ trace[i].n = 1
       /\ trace[j].t = "request" /\ trace[j].q = 1
       /\ trace[j].arg = "ga:1,ga:visits"
       /\ trace[k].t = "command" /\ trace[k].n = 2

\* The log of the success handler has the step named name.
Did(name) == \E i \in DOMAIN call.log : call.log[i] = name

\* C31: on a successful response without rows the success handler shows
\* the error message and stops there: no chart is built and none is drawn.
C31_NoRowsStopsSuccessPath ==
  call.fn = "onSuccessDefault" /\ call.resp.rows = <<>>
  => /\ Did("displayError")
     /\ \A c \in ChartClasses : ~Did("new " \o c)
     /\ ~Did("chart.draw")

====
